---------------------------- MODULE Spec2Model ----------------------------
(***************************************************************************)
(* Crypto price tracker: the alert-state engine (alert_manager.py) and the *)
(* background polling loop with its start/stop control (gui.py).           *)
(*                                                                         *)
(* The specifications share the variables:                                 *)
(*   SpecAlert  the AlertManager driven call by call, together with the    *)
(*              foreground handlers that edit an asset's alert settings;   *)
(*   Spec       the foreground (Tk main thread) and the polling threads    *)
(*              created by start_data_fetching_loop, interleaved;          *)
(*   FairSpec   Spec with the fairness the thread scheduler provides;      *)
(*   SpecTick   one polling thread followed statement by statement through *)
(*              a tick, the self.after queue and the widgets;              *)
(*   SpecTickRemove  SpecTick with the removal of a watched asset;         *)
(*   SpecCache  the coin-list cache of the CoinGecko client and the clock; *)
(*   SpecEngine the AlertManager under any caller, with or without the     *)
(*              cleanup calls, next to a reference that always cleans up;  *)
(*   SpecConfig load_config, DEFAULT_CONFIG and config.json.               *)
(***************************************************************************)
EXTENDS Integers, Sequences, FiniteSets, TLC

(***************************************************************************)
(* Bounds of the model.                                                    *)
(***************************************************************************)
\* Prices are 0..MaxPrice, thresholds 1..MaxPrice-1.
MaxPrice == 3
\* Thread objects that can be alive at the same time.
MaxThreads == 2
\* Callbacks that can wait in the Tk queue at the same time.
MaxQueue == 2

(***************************************************************************)
(* Program constants.                                                      *)
(***************************************************************************)
\* data_fetch_thread.join(timeout=5)
JoinTimeout == 5
\* time.sleep(1) in the three sleep loops of _fetch_data_loop
SleepStep == 1
\* if new_interval >= 10
MinInterval == 10
\* DEFAULT_CONFIG["refresh_interval_seconds"]
DefaultInterval == 60
\* CoinGeckoAPI.COIN_LIST_CACHE_DURATION
COIN_LIST_CACHE_DURATION == 3600

(***************************************************************************)
(* Python values.                                                          *)
(***************************************************************************)
\* An optional value is <<>> (None) or <<v>>.
None == <<>>
Some(v) == <<v>>
Val(o) == o[1]

Prices == 0..MaxPrice
Thresholds == 1..(MaxPrice - 1)
OptPrices == {None} \cup {Some(p) : p \in Prices}
OptThresholds == {None} \cup {Some(v) : v \in Thresholds}

\* The assets a user can watch: symbol and CoinMarketCap id.
BTC == [symbol |-> <<"BTC">>, id |-> Some(1)]
ETH == [symbol |-> <<"ETH">>, id |-> Some(27)]
\* A configuration-file entry whose "id" is null.
NOID == [symbol |-> <<"XNO">>, id |-> None]
Universe == {BTC, ETH}
Symbols == {u.symbol : u \in Universe \cup {NOID}}

\* The entry _add_coin_action appends for a new asset.
NewCoinConfig(u) ==
    [symbol |-> u.symbol, id |-> u.id,
     alert_above |-> None, alert_below |-> None, alert_active |-> FALSE]

(***************************************************************************)
(* String formatting of the alert keys (f-strings).                        *)
(***************************************************************************)
DigitTok == <<"0", "1", "2", "3", "4", "5", "6", "7", "8", "9">>

RECURSIVE Digits(_)
\* str(n) for a natural number.
Digits(n) == IF n < 10 THEN <<DigitTok[n + 1]>>
             ELSE Digits(n \div 10) \o <<DigitTok[(n % 10) + 1]>>

\* f"{coin_id}": the id's digits, or the text None.
FmtId(id) == IF id = None THEN <<"None">> ELSE Digits(Val(id))

\* f"{limit}" of a float with an integral value: 2.0 -> "2.0".
FmtFloat(v) == Digits(v) \o <<".", "0">>

\* alert_key_base = f"{coin_symbol}_{coin_id}"
AlertKeyBase(symbol, id) == symbol \o <<"_">> \o FmtId(id)

AlertId_NoLimit(symbol, id, kind, limit) ==
    AlertKeyBase(symbol, id) \o <<"_", kind>>

\* alert_id = f"{alert_key_base}_above_{alert_above_price}"
AlertId(symbol, id, kind, limit) ==
    AlertKeyBase(symbol, id) \o <<"_", kind, "_">> \o FmtFloat(limit)

\* key.startswith(prefix)
StartsWith(key, prefix) ==
    /\ Len(key) >= Len(prefix)
    /\ SubSeq(key, 1, Len(prefix)) = prefix

(***************************************************************************)
(* AlertManager: the pure effect of each method on triggered_alerts.       *)
(***************************************************************************)
\* The comparison of one bound kind.
Beyond(kind, price, limit) ==
    IF kind = "above" THEN price > limit ELSE price < limit

CheckBound_NoRearm(trig, symbol, id, kind, limit, price) ==
    IF limit # None /\ Beyond(kind, price, Val(limit))
    THEN LET alert_id == AlertId(symbol, id, kind, Val(limit))
         IN  IF alert_id \notin trig
             THEN [trig |-> trig \cup {alert_id}, fired |-> TRUE]
             ELSE [trig |-> trig, fired |-> FALSE]
    ELSE [trig |-> trig, fired |-> FALSE]

CheckBound_GreaterEqual(trig, symbol, id, kind, limit, price) ==
    IF limit # None
       /\ (Beyond(kind, price, Val(limit)) \/ price = Val(limit))
    THEN LET alert_id == AlertId(symbol, id, kind, Val(limit))
         IN  IF alert_id \notin trig
             THEN [trig |-> trig \cup {alert_id}, fired |-> TRUE]
             ELSE [trig |-> trig, fired |-> FALSE]
    ELSE IF limit # None
         THEN [trig |-> trig \ {AlertId(symbol, id, kind, Val(limit))},
               fired |-> FALSE]
         ELSE [trig |-> trig, fired |-> FALSE]

CheckBound_FireWithoutMark(trig, symbol, id, kind, limit, price) ==
    IF limit # None /\ Beyond(kind, price, Val(limit))
    THEN LET alert_id == AlertId(symbol, id, kind, Val(limit))
         IN  [trig |-> trig, fired |-> alert_id \notin trig]
    ELSE IF limit # None
         THEN [trig |-> trig \ {AlertId(symbol, id, kind, Val(limit))},
               fired |-> FALSE]
         ELSE [trig |-> trig, fired |-> FALSE]

CheckBound_AnyThreshold(trig, symbol, id, kind, limit, price) ==
    IF limit # None /\ Beyond(kind, price, Val(limit))
    THEN LET alert_id == AlertId(symbol, id, kind, Val(limit))
             prefix == AlertKeyBase(symbol, id) \o <<"_", kind, "_">>
         IN  IF \A key \in trig : ~StartsWith(key, prefix)
             THEN [trig |-> trig \cup {alert_id}, fired |-> TRUE]
             ELSE [trig |-> trig, fired |-> FALSE]
    ELSE IF limit # None
         THEN [trig |-> trig \ {AlertId(symbol, id, kind, Val(limit))},
               fired |-> FALSE]
         ELSE [trig |-> trig, fired |-> FALSE]

\* One of the two symmetric blocks of check_and_trigger_alerts: the bound
\* is crossed and the key is not yet triggered -> fire and mark; the bound
\* is set and not crossed -> pop the key.
CheckBound(trig, symbol, id, kind, limit, price) ==
    IF limit # None /\ Beyond(kind, price, Val(limit))
    THEN LET alert_id == AlertId(symbol, id, kind, Val(limit))
         IN  IF alert_id \notin trig
             THEN [trig |-> trig \cup {alert_id}, fired |-> TRUE]
             ELSE [trig |-> trig, fired |-> FALSE]
    ELSE IF limit # None
         THEN [trig |-> trig \ {AlertId(symbol, id, kind, Val(limit))},
               fired |-> FALSE]
         ELSE [trig |-> trig, fired |-> FALSE]

\* What one call hands to its callbacks: the visual alerts, in order of
\* emission, and the number of sound threads started.
NoOutput == [ev |-> <<>>, snd |-> 0]

check_and_trigger_alerts_IgnoreActive(trig, symbol, id, price, conf, sound, mixer) ==
    IF price = None
    THEN [trig |-> trig, ev |-> <<>>, snd |-> 0]
    ELSE LET a  == CheckBound(trig, symbol, id, "above", conf.alert_above, Val(price))
             b  == CheckBound(a.trig, symbol, id, "below", conf.alert_below, Val(price))
             ea == IF a.fired THEN <<[symbol |-> symbol, type |-> "above"]>> ELSE <<>>
             eb == IF b.fired THEN <<[symbol |-> symbol, type |-> "below"]>> ELSE <<>>
         IN  [trig |-> b.trig, ev |-> ea \o eb,
              snd |-> IF sound /\ mixer THEN Len(ea \o eb) ELSE 0]

check_and_trigger_alerts_SoundGates(trig, symbol, id, price, conf, sound, mixer) ==
    IF ~conf.alert_active \/ price = None \/ ~(sound /\ mixer)
    THEN [trig |-> trig, ev |-> <<>>, snd |-> 0]
    ELSE LET a  == CheckBound(trig, symbol, id, "above", conf.alert_above, Val(price))
             b  == CheckBound(a.trig, symbol, id, "below", conf.alert_below, Val(price))
             ea == IF a.fired THEN <<[symbol |-> symbol, type |-> "above"]>> ELSE <<>>
             eb == IF b.fired THEN <<[symbol |-> symbol, type |-> "below"]>> ELSE <<>>
         IN  [trig |-> b.trig, ev |-> ea \o eb, snd |-> Len(ea \o eb)]

check_and_trigger_alerts_NonePriceAsZero(trig, symbol, id, price, conf, sound, mixer) ==
    IF ~conf.alert_active
    THEN [trig |-> trig, ev |-> <<>>, snd |-> 0]
    ELSE LET v  == IF price = None THEN 0 ELSE Val(price)
             a  == CheckBound(trig, symbol, id, "above", conf.alert_above, v)
             b  == CheckBound(a.trig, symbol, id, "below", conf.alert_below, v)
             ea == IF a.fired THEN <<[symbol |-> symbol, type |-> "above"]>> ELSE <<>>
             eb == IF b.fired THEN <<[symbol |-> symbol, type |-> "below"]>> ELSE <<>>
         IN  [trig |-> b.trig, ev |-> ea \o eb,
              snd |-> IF sound /\ mixer THEN Len(ea \o eb) ELSE 0]

check_and_trigger_alerts_ElseIf(trig, symbol, id, price, conf, sound, mixer) ==
    IF ~conf.alert_active \/ price = None
    THEN [trig |-> trig, ev |-> <<>>, snd |-> 0]
    ELSE LET a  == CheckBound(trig, symbol, id, "above", conf.alert_above, Val(price))
             b  == IF a.fired THEN [trig |-> a.trig, fired |-> FALSE]
                   ELSE CheckBound(a.trig, symbol, id, "below", conf.alert_below, Val(price))
             ea == IF a.fired THEN <<[symbol |-> symbol, type |-> "above"]>> ELSE <<>>
             eb == IF b.fired THEN <<[symbol |-> symbol, type |-> "below"]>> ELSE <<>>
         IN  [trig |-> b.trig, ev |-> ea \o eb,
              snd |-> IF sound /\ mixer THEN Len(ea \o eb) ELSE 0]

\* check_and_trigger_alerts(coin_symbol, coin_id, current_price, coin_config)
check_and_trigger_alerts(trig, symbol, id, price, conf, sound, mixer) ==
    IF ~conf.alert_active \/ price = None
    THEN [trig |-> trig, ev |-> <<>>, snd |-> 0]
    ELSE LET a  == CheckBound(trig, symbol, id, "above", conf.alert_above, Val(price))
             b  == CheckBound(a.trig, symbol, id, "below", conf.alert_below, Val(price))
             ea == IF a.fired THEN <<[symbol |-> symbol, type |-> "above"]>> ELSE <<>>
             eb == IF b.fired THEN <<[symbol |-> symbol, type |-> "below"]>> ELSE <<>>
         IN  [trig |-> b.trig, ev |-> ea \o eb,
              snd |-> IF sound /\ mixer THEN Len(ea \o eb) ELSE 0]

reset_alert_state_Noop(trig, symbol, id, limit_type, limit_value) == trig

\* reset_alert_state(coin_symbol, coin_id, limit_type, limit_value)
reset_alert_state(trig, symbol, id, limit_type, limit_value) ==
    trig \ {AlertId(symbol, id, limit_type, limit_value)}

reset_all_alerts_for_coin_AboveOnly(trig, symbol, id) ==
    {key \in trig :
        ~StartsWith(key, AlertKeyBase(symbol, id) \o <<"_", "above">>)}

\* reset_all_alerts_for_coin(coin_symbol, coin_id)
reset_all_alerts_for_coin(trig, symbol, id) ==
    {key \in trig : ~StartsWith(key, AlertKeyBase(symbol, id) \o <<"_">>)}


(***************************************************************************)
(* State.                                                                  *)
(***************************************************************************)
VARIABLES
    \* App.config
    watched_coins,            \* config["watched_coins"]: sequence of entries
    refresh_interval_seconds, \* config["refresh_interval_seconds"]
    sound_enabled,            \* config["sound_enabled"]
    \* AlertManager
    triggered_alerts,         \* keys of the triggered_alerts dict
    mixer_initialized,        \* _mixer_initialized
    \* App: scheduler state
    cmc_api_client,           \* TRUE when a client object is set
    data_fetch_thread,        \* 0 for None, else a thread
    stop_fetching_event,      \* threading.Event
    thr,                      \* the thread objects: position and locals
    ui,                       \* the foreground: idle, or inside join()
    prompt_queued,            \* _prompt_for_api_key_again waiting in after()
    \* What the last step did (its outputs), and history the claims refer to.
    last,
    prev,                     \* per asset and bound: last evaluated sample
    raised_from,              \* per asset: a fired bound that was raised
    removed_keys,             \* keys that were triggered when removed
    sig,                      \* per thread: the sleep site at which a stop
                              \* signal caught it, and whether it has exited
    key_rejected,             \* an authentication failure was observed and
                              \* no new key has been entered since
    toggled,                  \* per asset: alerts were switched off, then
                              \* on again with the same bounds, and whether
                              \* the first evaluation since has begun
    \* Tk
    after_queue,              \* callbacks handed to self.after(0, ...), in
                              \* order, not yet run by the main loop
    widgets,                  \* the status label and, per row, the price
                              \* label and the background colour
    \* config_manager
    config_file,              \* what config.json holds on disk
    DEFAULT_CONFIG,           \* the module-level default dict
    shares_default,           \* config["watched_coins"] is the list object
                              \* of DEFAULT_CONFIG["watched_coins"]
    \* CoinGeckoAPI
    coin_list_cache,          \* None, or the cached list
    coin_list_last_updated,   \* time.time() of the last successful fetch
    clock,                    \* time.time()
    \* A reference AlertManager that receives the same calls and, at every
    \* change of a bound, the cleanup call reset_alert_state.
    cleaned_alerts,
    \* The bound values whose entry a caller left in triggered_alerts by
    \* changing the bound without the cleanup call.
    orphaned

cfgVars   == <<watched_coins, refresh_interval_seconds, sound_enabled>>
alertVars == <<triggered_alerts, mixer_initialized>>
schedVars == <<cmc_api_client, data_fetch_thread, stop_fetching_event,
               thr, ui, prompt_queued>>
histVars  == <<prev, raised_from, removed_keys, sig, key_rejected, toggled>>
tkVars    == <<after_queue, widgets>>
restVars  == <<config_file, DEFAULT_CONFIG, shares_default, coin_list_cache,
               coin_list_last_updated, clock, cleaned_alerts, orphaned>>
vars      == <<cfgVars, alertVars, schedVars, last, histVars, tkVars,
               restVars>>

Threads == 1..MaxThreads
Kinds == {"above", "below"}

\* self.coin_rows: one row per watched entry, keyed by id.
coin_rows == {watched_coins[i].id : i \in 1..Len(watched_coins)}

Limit(conf, kind) ==
    IF kind = "above" THEN conf.alert_above ELSE conf.alert_below

Event(symbol, kind) == [symbol |-> symbol, type |-> kind]

Emitted(l, symbol, kind) ==
    \E n \in 1..Len(l.ev) : l.ev[n] = Event(symbol, kind)

NoPrev == [s \in Symbols |-> [k \in Kinds |-> None]]

\* A thread object: its position in _fetch_data_loop and the locals of
\* that frame (watched_coins_config, the index of the for loop, the parsed
\* current_price, the kind of api_response, the sleep site and whether a
\* time.sleep(1) of the current sleep loop has completed).
ThreadAt(pc, watched, i, price, resp, site, n) ==
    [pc |-> pc, watched |-> watched, i |-> i, price |-> price,
     resp |-> resp, site |-> site, n |-> n]

\* The history of a thread that no stop has signalled in its sleep phase.
NoSig == <<"none", 0>>

\* A thread object that is not running.
DeadThread == ThreadAt("dead", <<>>, 0, None, "none", 0, 0)

\* The record of a step: who, which operation, on which asset and price,
\* the visual alerts and sounds it produced, the callbacks it handed to
\* self.after, and a note for the history variables.
Step(by, op, symbol, price, ev, snd, out, note) ==
    [by |-> by, op |-> op, symbol |-> symbol, price |-> price,
     ev |-> ev, snd |-> snd, out |-> out, note |-> note]

NoStep == Step(0, "init", <<>>, None, <<>>, 0, {}, "")

\* The ids of the rows, and the widgets as _create_widgets and
\* _load_watched_coins_to_gui leave them: no price shown, no highlight.
RowIds == {u.id : u \in Universe \cup {NOID}}
NoWidgets ==
    [status |-> <<>>,
     price_label |-> [id \in RowIds |-> <<>>],
     fg_color |-> [id \in RowIds |-> "transparent"]]

NoToggle == [s \in Symbols |-> "none"]

\* DEFAULT_CONFIG as config_manager.py writes it: no watched asset.  (Its
\* interval is DefaultInterval; numbers are not shared by reference.)
DefaultDict == [watched_coins |-> <<>>]

\* No config.json on disk.
NoFile == [kind |-> "missing", interval |-> None, watched |-> None]

\* time.time() when the CoinGeckoAPI object is built: later than one cache
\* duration after the epoch, where coin_list_last_updated starts.
StartTime == COIN_LIST_CACHE_DURATION + 1

\* The module-level state after import and construction: DEFAULT_CONFIG
\* as written in config_manager.py, an empty CoinGecko cache.  The file
\* and the default dict are followed in SpecConfig, the cache in SpecCache,
\* the reference AlertManager in SpecEngine.
InitRest ==
    /\ config_file = NoFile
    /\ DEFAULT_CONFIG = DefaultDict
    /\ shares_default = FALSE
    /\ coin_list_cache = None
    /\ coin_list_last_updated = 0
    /\ clock = StartTime
    /\ cleaned_alerts = {}
    /\ orphaned = {}

(***************************************************************************)
(* SpecAlert: the AlertManager called directly, and the foreground         *)
(* handlers that change an asset's alert settings.                         *)
(***************************************************************************)
InitAlert ==
    /\ watched_coins = <<NewCoinConfig(BTC)>>
    /\ refresh_interval_seconds = DefaultInterval
    /\ sound_enabled \in BOOLEAN
    /\ triggered_alerts = {}
    /\ mixer_initialized \in BOOLEAN
    /\ cmc_api_client = TRUE
    /\ data_fetch_thread = 0
    /\ stop_fetching_event = FALSE
    /\ thr = [t \in Threads |-> DeadThread]
    /\ ui = [pc |-> "idle", cont |-> "none"]
    /\ prompt_queued = FALSE
    /\ last = NoStep
    /\ prev = NoPrev
    /\ raised_from = [s \in Symbols |-> None]
    /\ removed_keys = {}
    /\ sig = [t \in Threads |-> NoSig]
    /\ key_rejected = FALSE
    /\ toggled = NoToggle
    /\ after_queue = <<>>
    /\ widgets = NoWidgets
    /\ InitRest

\* History kept across one evaluated call for the asset conf at price p.
PrevAfterCheck(conf, p) ==
    [prev EXCEPT ![conf.symbol] =
        [k \in Kinds |-> IF Limit(conf, k) # None THEN p ELSE None]]

\* alert_manager.check_and_trigger_alerts(symbol, id, price, coin_conf) on
\* the i-th watched entry.
Check(i, p) ==
    LET conf == watched_coins[i]
        r == check_and_trigger_alerts(triggered_alerts, conf.symbol, conf.id,
                                      p, conf, sound_enabled, mixer_initialized)
        evaluated == conf.alert_active /\ p # None
        refire == \E k \in Kinds :
                    /\ Limit(conf, k) # None
                    /\ AlertId(conf.symbol, conf.id, k, Val(Limit(conf, k)))
                          \in removed_keys \cap r.trig
        raise == /\ raised_from[conf.symbol] # None
                 /\ evaluated
                 /\ Val(p) > Val(conf.alert_above)
    IN  /\ triggered_alerts' = r.trig
        /\ last' = Step(0, "check", conf.symbol, p, r.ev, r.snd, {},
                        IF refire THEN "refire"
                        ELSE IF raise THEN "raise" ELSE "")
        /\ prev' = IF evaluated THEN PrevAfterCheck(conf, p) ELSE prev
        /\ raised_from' = IF raise
                          THEN [raised_from EXCEPT ![conf.symbol] = None]
                          ELSE raised_from
        /\ removed_keys' = IF evaluated THEN removed_keys \ r.trig
                           ELSE removed_keys
        /\ toggled' = IF evaluated /\ \E k \in Kinds :
                                        /\ Limit(conf, k) # None
                                        /\ Beyond(k, Val(p), Val(Limit(conf, k)))
                      THEN [toggled EXCEPT ![conf.symbol] = "none"]
                      ELSE toggled
        /\ UNCHANGED <<cfgVars, mixer_initialized, tkVars, schedVars, sig, key_rejected, restVars>>

\* The entry of the watch list with this id, changed by f.
SetField(i, field, value) ==
    [watched_coins EXCEPT ![i] = [@ EXCEPT ![field] = value]]

_handle_update_coin_alert_value_NoStore(i, alert_type, new_value) ==
    LET conf == watched_coins[i]
        kind == IF alert_type = "alert_above" THEN "above" ELSE "below"
        old_value == conf[alert_type]
    IN  IF old_value # new_value
        THEN /\ triggered_alerts' =
                   IF old_value # None
                   THEN reset_alert_state(triggered_alerts, conf.symbol,
                                          conf.id, kind, Val(old_value))
                   ELSE triggered_alerts
             /\ watched_coins' = watched_coins
             /\ prev' = [prev EXCEPT ![conf.symbol][kind] = None]
             /\ raised_from' =
                   [raised_from EXCEPT ![conf.symbol] =
                       IF /\ kind = "above" /\ old_value # None
                          /\ new_value # None
                          /\ Val(new_value) > Val(old_value)
                          /\ AlertId(conf.symbol, conf.id, kind, Val(old_value))
                                \in triggered_alerts
                       THEN old_value
                       ELSE IF kind = "above" THEN None ELSE @]
        ELSE UNCHANGED <<triggered_alerts, watched_coins, prev, raised_from>>

\* App._handle_update_coin_alert_value(symbol, coin_id, alert_type, new_value)
\* for the i-th entry: reset the key of the old value, store the new one.
_handle_update_coin_alert_value(i, alert_type, new_value) ==
    LET conf == watched_coins[i]
        kind == IF alert_type = "alert_above" THEN "above" ELSE "below"
        old_value == conf[alert_type]
    IN  IF old_value # new_value
        THEN /\ triggered_alerts' =
                   IF old_value # None
                   THEN reset_alert_state(triggered_alerts, conf.symbol,
                                          conf.id, kind, Val(old_value))
                   ELSE triggered_alerts
             /\ watched_coins' = SetField(i, alert_type, new_value)
             /\ prev' = [prev EXCEPT ![conf.symbol][kind] = None]
             /\ raised_from' =
                   [raised_from EXCEPT ![conf.symbol] =
                       IF /\ kind = "above" /\ old_value # None
                          /\ new_value # None
                          /\ Val(new_value) > Val(old_value)
                          /\ AlertId(conf.symbol, conf.id, kind, Val(old_value))
                                \in triggered_alerts
                       THEN old_value
                       ELSE IF kind = "above" THEN None ELSE @]
        ELSE UNCHANGED <<triggered_alerts, watched_coins, prev, raised_from>>

HandleUpdateCoinAlertValue(i, alert_type, new_value) ==
    /\ ui.pc = "idle"
    /\ _handle_update_coin_alert_value(i, alert_type, new_value)
    /\ toggled' = IF watched_coins[i][alert_type] # new_value
                  THEN [toggled EXCEPT ![watched_coins[i].symbol] = "none"]
                  ELSE toggled
    /\ last' = Step(0, "update_alert_value", watched_coins[i].symbol, None,
                    <<>>, 0, {}, "")
    /\ UNCHANGED <<refresh_interval_seconds, sound_enabled, mixer_initialized, tkVars,
                   schedVars, removed_keys, sig, key_rejected, restVars>>

\* App._handle_toggle_alert_active(symbol, coin_id, is_active)
HandleToggleAlertActive(i, is_active) ==
    LET conf == watched_coins[i]
    IN  /\ ui.pc = "idle"
        /\ IF conf.alert_active # is_active
           THEN /\ watched_coins' = SetField(i, "alert_active", is_active)
                /\ triggered_alerts' =
                      IF ~is_active
                      THEN reset_all_alerts_for_coin(triggered_alerts,
                                                     conf.symbol, conf.id)
                      ELSE triggered_alerts
                /\ prev' = [prev EXCEPT ![conf.symbol] =
                               [k \in Kinds |-> None]]
                /\ raised_from' = [raised_from EXCEPT ![conf.symbol] = None]
           ELSE UNCHANGED <<watched_coins, triggered_alerts, prev, raised_from>>
        /\ toggled' = IF conf.alert_active = is_active THEN toggled
                      ELSE [toggled EXCEPT ![conf.symbol] =
                               IF ~is_active THEN "off"
                               ELSE IF @ = "off" THEN "on" ELSE "none"]
        /\ last' = Step(0, "toggle_alert_active", conf.symbol, None,
                        <<>>, 0, {}, "")
        /\ UNCHANGED <<refresh_interval_seconds, sound_enabled,
                       mixer_initialized, tkVars, schedVars, removed_keys, sig, key_rejected, restVars>>

\* The list without its i-th entry (the list comprehension on c["id"]).
WithoutId(list, id) == SelectSeq(list, LAMBDA c : c.id # id)

\* App._handle_remove_coin(symbol, coin_id) for the i-th entry.
HandleRemoveCoin(i) ==
    LET conf == watched_coins[i]
        after == reset_all_alerts_for_coin(triggered_alerts, conf.symbol, conf.id)
    IN  /\ ui.pc = "idle"
        /\ watched_coins' = WithoutId(watched_coins, conf.id)
        /\ triggered_alerts' = after
        /\ prev' = [prev EXCEPT ![conf.symbol] = [k \in Kinds |-> None]]
        /\ raised_from' = [raised_from EXCEPT ![conf.symbol] = None]
        /\ removed_keys' =
              {key \in removed_keys :
                  ~StartsWith(key, AlertKeyBase(conf.symbol, conf.id) \o <<"_">>)}
              \cup (triggered_alerts \ after)
        /\ toggled' = [toggled EXCEPT ![conf.symbol] = "none"]
        /\ last' = Step(0, "remove_coin", conf.symbol, None, <<>>, 0, {}, "")
        /\ UNCHANGED <<refresh_interval_seconds, sound_enabled,
                       mixer_initialized, tkVars, schedVars, sig, key_rejected, restVars>>

\* App._add_coin_action for a symbol the API resolves to asset u: refused
\* when the symbol or the id is already tracked, else a new entry with no
\* bounds, inactive.  (_fetch_data_once then only updates the new row.)
AddCoin(u) ==
    /\ ui.pc = "idle"
    /\ cmc_api_client
    /\ \A n \in 1..Len(watched_coins) :
          watched_coins[n].symbol # u.symbol /\ watched_coins[n].id # u.id
    /\ watched_coins' = Append(watched_coins, NewCoinConfig(u))
    /\ last' = Step(0, "add_coin", u.symbol, None, <<>>, 0, {}, "")
    /\ UNCHANGED <<refresh_interval_seconds, sound_enabled, alertVars, tkVars,
                   schedVars, histVars, restVars>>

\* App._toggle_sound_enabled
ToggleSoundEnabled ==
    /\ ui.pc = "idle"
    /\ sound_enabled' = ~sound_enabled
    /\ last' = Step(0, "toggle_sound", <<>>, None, <<>>, 0, {}, "")
    /\ UNCHANGED <<watched_coins, refresh_interval_seconds, alertVars, tkVars,
                   schedVars, histVars, restVars>>

NextAlert ==
    \/ \E i \in 1..Len(watched_coins), p \in OptPrices : Check(i, p)
    \/ \E i \in 1..Len(watched_coins), new_value \in OptThresholds :
          \/ HandleUpdateCoinAlertValue(i, "alert_above", new_value)
          \/ HandleUpdateCoinAlertValue(i, "alert_below", new_value)
    \/ \E i \in 1..Len(watched_coins), is_active \in BOOLEAN :
          HandleToggleAlertActive(i, is_active)
    \/ \E i \in 1..Len(watched_coins) : HandleRemoveCoin(i)
    \/ AddCoin(BTC)
    \/ ToggleSoundEnabled

SpecAlert == InitAlert /\ [][NextAlert]_vars


(***************************************************************************)
(* Spec: the foreground and the polling threads.                           *)
(***************************************************************************)
\* Watch-list entries of the configuration file the application starts
\* with: an asset with an active upper bound, and an entry without an id.
\* The list may also be empty.
BtcAlert == [symbol |-> BTC.symbol, id |-> BTC.id, alert_above |-> Some(1),
             alert_below |-> None, alert_active |-> TRUE]
NoIdEntry == NewCoinConfig(NOID)

\* Prices the API answers with in Spec: below and above the bound.
TickPrices == {0, MaxPrice}

\* Kinds of api_response: data, an error whose message names the API key,
\* another error, and a response with neither data nor error.
Responses == {"data", "auth", "error", "unknown"}

\* What the API holds for one asset of a data response.
Outcomes == [kind : {"absent", "malformed"}, price : {None}]
            \cup [kind : {"ok"}, price : {Some(p) : p \in TickPrices}]

\* Values typed into the refresh-interval entry.
Intervals == {MinInterval - 1, MinInterval, DefaultInterval}

Alive(t) == thr[t].pc # "dead"
AliveThreads == {t \in Threads : Alive(t)}

Quiet == Step(0, "quiet", <<>>, None, <<>>, 0, {}, "")
Dispatch(t, op, out) ==
    IF out = {} THEN Quiet ELSE Step(t, op, <<>>, None, <<>>, 0, out, "")

MaxBlocking_SleepWholeInterval(pc) ==
    IF pc = "get_quotes" THEN None
    ELSE IF pc = "sleep_zz" THEN Some(MinInterval) ELSE Some(0)

\* The longest a thread can stay at a position, in seconds: requests.get is
\* called without a timeout (None: unbounded), time.sleep(1) takes one
\* second, everything else is straight-line code.
MaxBlocking(pc) ==
    IF pc = "get_quotes" THEN None
    ELSE IF pc = "sleep_zz" THEN Some(SleepStep) ELSE Some(0)

join_NoTimeout(t) == FALSE

\* data_fetch_thread.join(timeout=5) returns with the thread still alive
\* only when the thread stays where it is for the whole timeout.
join_timeout(t) ==
    LET b == MaxBlocking(thr[t].pc)
    IN  IF b = None THEN TRUE ELSE Val(b) >= JoinTimeout

\* The thread t leaves _fetch_data_loop.
Exit(t) ==
    /\ thr' = [thr EXCEPT ![t] = DeadThread]
    /\ sig' = [sig EXCEPT ![t] = IF @[1] = "sleep" THEN <<"exited", @[2]>>
                                  ELSE NoSig]

Goto(t, rec) ==
    /\ thr' = [thr EXCEPT ![t] = rec]
    /\ UNCHANGED sig

StartSleep(t, site, resp) == ThreadAt("sleep_chk", <<>>, 0, None, resp, site, 0)

\* Line 443-453 and 455: the loop condition, the snapshot of the watch
\* list, and the heartbeat of the empty list.
LoopWhile(t) ==
    /\ thr[t].pc = "while"
    /\ IF stop_fetching_event
       THEN Exit(t) /\ last' = Quiet
       ELSE IF watched_coins = <<>>
            THEN /\ Goto(t, StartSleep(t, 1, thr[t].resp))
                 /\ last' = Dispatch(t, "heartbeat", {"status"})
            ELSE /\ Goto(t, [thr[t] EXCEPT !.pc = "client",
                                           !.watched = watched_coins])
                 /\ last' = Quiet
    /\ UNCHANGED <<cfgVars, alertVars, tkVars, cmc_api_client, data_fetch_thread,
                   stop_fetching_event, ui, prompt_queued,
                   prev, raised_from, removed_keys, key_rejected, toggled, restVars>>

\* coin_ids_to_fetch
IdsToFetch(watched) ==
    SelectSeq([n \in 1..Len(watched) |-> watched[n].id], LAMBDA id : id # None)

\* Lines 455-472: no client -> status and break; no ids -> sleep; else the
\* status "Fetching data..." and the call of get_quotes.
LoopClient(t) ==
    /\ thr[t].pc = "client"
    /\ IF ~cmc_api_client
       THEN Exit(t) /\ last' = Dispatch(t, "no_client", {"status"})
       ELSE IF IdsToFetch(thr[t].watched) = <<>>
            THEN /\ Goto(t, StartSleep(t, 2, thr[t].resp))
                 /\ last' = Quiet
            ELSE /\ Goto(t, [thr[t] EXCEPT !.pc = "get_quotes"])
                 /\ last' = Dispatch(t, "fetch", {"status"})
    /\ UNCHANGED <<cfgVars, alertVars, tkVars, cmc_api_client, data_fetch_thread,
                   stop_fetching_event, ui, prompt_queued,
                   prev, raised_from, removed_keys, key_rejected, toggled, restVars>>

\* Line 472: get_quotes returns.
GetQuotesReturn(t, r) ==
    /\ thr[t].pc = "get_quotes"
    /\ Goto(t, [thr[t] EXCEPT !.pc = "got", !.resp = r])
    /\ last' = Quiet
    /\ UNCHANGED <<cfgVars, alertVars, tkVars, cmc_api_client, data_fetch_thread,
                   stop_fetching_event, ui, prompt_queued,
                   prev, raised_from, removed_keys, key_rejected, toggled, restVars>>

ErrorBranch_AlwaysBreak(resp) ==
    IF resp = "auth"
    THEN [out |-> {"status", "prompt"}, break |-> TRUE]
    ELSE [out |-> {"status"}, break |-> TRUE]

\* Lines 516-531: the status text of an error or unknown response; an
\* error message naming the API key also queues the prompt and breaks.
ErrorBranch(resp) ==
    IF resp = "auth"
    THEN [out |-> {"status", "prompt"}, break |-> TRUE]
    ELSE [out |-> {"status"}, break |-> FALSE]

\* Lines 474-531 up to the for loop: the stop check after the fetch and
\* the classification of the response.
LoopGot(t) ==
    /\ thr[t].pc = "got"
    /\ IF stop_fetching_event
       THEN /\ Exit(t) /\ last' = Quiet
            /\ UNCHANGED <<prompt_queued, key_rejected>>
       ELSE IF thr[t].resp = "data"
            THEN /\ Goto(t, [thr[t] EXCEPT !.pc = "coin", !.i = 1])
                 /\ last' = Quiet
                 /\ UNCHANGED <<prompt_queued, key_rejected>>
            ELSE LET e == ErrorBranch(thr[t].resp)
                 IN  /\ IF e.break THEN Exit(t)
                        ELSE Goto(t, StartSleep(t, 3, "failed"))
                     /\ last' = Dispatch(t, "api_error", e.out)
                     /\ prompt_queued' = (prompt_queued \/ "prompt" \in e.out)
                     /\ key_rejected' = (key_rejected \/ thr[t].resp = "auth")
    /\ UNCHANGED <<cfgVars, alertVars, tkVars, cmc_api_client, data_fetch_thread,
                   stop_fetching_event, ui, prev, raised_from, removed_keys,
                   toggled, restVars>>

NextCoin_Break(rec) ==
    [rec EXCEPT !.pc = "after_coins", !.i = 0, !.watched = <<>>]

\* The for loop moves to its next entry, or ends.
NextCoin(rec) ==
    IF rec.i < Len(rec.watched)
    THEN [rec EXCEPT !.pc = "coin", !.i = rec.i + 1, !.price = None]
    ELSE [rec EXCEPT !.pc = "after_coins", !.i = 0, !.price = None,
                     !.watched = <<>>]

\* Lines 480-493 and 498-508 for the entry at the loop index: the stop
\* checks, the lookup and parsing of the entry's data, and the row update
\* handed to self.after.
LoopCoin(t, outcome) ==
    LET rec == thr[t]
        conf == rec.watched[rec.i]
        row == conf.id \in coin_rows
    IN  /\ rec.pc = "coin"
        /\ conf.id = None => outcome.kind = "absent"
        /\ IF stop_fetching_event
           THEN /\ Goto(t, [rec EXCEPT !.pc = "after_coins", !.i = 0,
                                       !.watched = <<>>])
                /\ last' = Quiet
           ELSE IF outcome.kind # "ok"
                THEN /\ Goto(t, NextCoin(rec))
                     /\ last' = Dispatch(t, "row", IF row THEN {"unavailable"}
                                                   ELSE {})
                ELSE /\ Goto(t, [rec EXCEPT !.pc = "coin_eval",
                                            !.price = outcome.price])
                     /\ last' = Dispatch(t, "row", IF row THEN {"update"}
                                                   ELSE {})
        /\ UNCHANGED <<cfgVars, alertVars, tkVars, cmc_api_client, data_fetch_thread,
                       stop_fetching_event, ui, prompt_queued,
                       prev, raised_from, removed_keys, key_rejected, toggled, restVars>>

\* App.handle_visual_alert: the row of that symbol, if any, is highlighted
\* through self.after.
handle_visual_alert(ev) ==
    IF \E n \in 1..Len(ev), m \in 1..Len(watched_coins) :
          watched_coins[m].symbol = ev[n].symbol
    THEN {"alert"} ELSE {}

\* Lines 495-497: the alert evaluation of the entry at the loop index.
LoopEval(t) ==
    LET rec == thr[t]
        conf == rec.watched[rec.i]
        r == check_and_trigger_alerts(triggered_alerts, conf.symbol, conf.id,
                                      rec.price, conf, sound_enabled,
                                      mixer_initialized)
    IN  /\ rec.pc = "coin_eval"
        /\ triggered_alerts' = r.trig
        /\ Goto(t, NextCoin(rec))
        /\ last' = Step(t, "eval", conf.symbol, rec.price, r.ev, r.snd,
                        handle_visual_alert(r.ev), "")
        /\ UNCHANGED <<cfgVars, mixer_initialized, tkVars, cmc_api_client,
                       data_fetch_thread, stop_fetching_event, ui,
                       prompt_queued, prev, raised_from, removed_keys,
                       key_rejected, toggled, restVars>>

\* Lines 509-514: the stop check after the for loop and the status text.
LoopAfterCoins(t) ==
    /\ thr[t].pc = "after_coins"
    /\ IF stop_fetching_event
       THEN Exit(t) /\ last' = Quiet
       ELSE /\ Goto(t, StartSleep(t, 3, "none"))
            /\ last' = Dispatch(t, "updated", {"status"})
    /\ UNCHANGED <<cfgVars, alertVars, tkVars, cmc_api_client, data_fetch_thread,
                   stop_fetching_event, ui, prompt_queued,
                   prev, raised_from, removed_keys, key_rejected, toggled, restVars>>

\* Where a sleep loop continues when it is left: the sites of the empty
\* list and of the missing ids check the event again (lines 452, 467), the
\* site at the end of a cycle goes back to the loop condition.
AfterSleep(rec) ==
    IF rec.site = 3
    THEN ThreadAt("while", <<>>, 0, None, rec.resp, 0, 0)
    ELSE [rec EXCEPT !.pc = "sleep_out"]

\* One iteration of "for _ in range(refresh_interval)": the event is set ->
\* break; iterations remain (more) -> time.sleep(1); else the loop ends.
\* The first iteration exists when the interval is positive; how many
\* follow is not counted.
SleepCheck(t, more) ==
    /\ thr[t].pc = "sleep_chk"
    /\ IF stop_fetching_event
       THEN Goto(t, AfterSleep(thr[t]))
       ELSE IF more \/ (thr[t].n = 0 /\ refresh_interval_seconds > 0)
            THEN Goto(t, [thr[t] EXCEPT !.pc = "sleep_zz"])
            ELSE Goto(t, AfterSleep(thr[t]))
    /\ last' = Quiet
    /\ UNCHANGED <<cfgVars, alertVars, tkVars, cmc_api_client, data_fetch_thread,
                   stop_fetching_event, ui, prompt_queued,
                   prev, raised_from, removed_keys, key_rejected, toggled, restVars>>

\* time.sleep(1) returns.
SleepWake(t) ==
    /\ thr[t].pc = "sleep_zz"
    /\ Goto(t, [thr[t] EXCEPT !.pc = "sleep_chk", !.n = 1])
    /\ last' = Quiet
    /\ UNCHANGED <<cfgVars, alertVars, tkVars, cmc_api_client, data_fetch_thread,
                   stop_fetching_event, ui, prompt_queued,
                   prev, raised_from, removed_keys, key_rejected, toggled, restVars>>

\* Lines 452-453 and 467-468: "if is_set(): break" and "continue".
SleepOut(t) ==
    /\ thr[t].pc = "sleep_out"
    /\ IF stop_fetching_event
       THEN Exit(t)
       ELSE Goto(t, ThreadAt("while", <<>>, 0, None, thr[t].resp, 0, 0))
    /\ last' = Quiet
    /\ UNCHANGED <<cfgVars, alertVars, tkVars, cmc_api_client, data_fetch_thread,
                   stop_fetching_event, ui, prompt_queued,
                   prev, raised_from, removed_keys, key_rejected, toggled, restVars>>

\* One step of _fetch_data_loop in thread t, the response of a pending
\* get_quotes excepted.
LoopStep(t) ==
    \/ LoopWhile(t)
    \/ LoopClient(t)
    \/ LoopGot(t)
    \/ \E outcome \in Outcomes : LoopCoin(t, outcome)
    \/ LoopEval(t)
    \/ LoopAfterCoins(t)
    \/ \E more \in BOOLEAN : SleepCheck(t, more)
    \/ SleepWake(t)
    \/ SleepOut(t)

\* The thread object threading.Thread(...) creates: a slot not in use.
NewThread(th) == CHOOSE t \in Threads :
                    /\ th[t].pc = "dead"
                    /\ \A u \in Threads : th[u].pc = "dead" => t <= u

\* The number of live threads leaves room for one more.
CanCreateThread == Cardinality(AliveThreads) < MaxThreads

start_data_fetching_loop_NoAliveCheck(client, dft, event, th) ==
    IF ~client
    THEN [dft |-> dft, event |-> event, thr |-> th, note |-> "no_client"]
    ELSE LET t == NewThread(th)
         IN  [dft |-> t, event |-> FALSE,
              thr |-> [th EXCEPT ![t] =
                          ThreadAt("while", <<>>, 0, None, "none", 0, 0)],
              note |-> "started"]

\* App.start_data_fetching_loop as a function of cmc_api_client,
\* data_fetch_thread, stop_fetching_event and the thread objects: no
\* client -> status only; registered thread alive -> return; else clear
\* the event, create and start a thread.
start_data_fetching_loop(client, dft, event, th) ==
    IF ~client
    THEN [dft |-> dft, event |-> event, thr |-> th, note |-> "no_client"]
    ELSE IF dft # 0 /\ th[dft].pc # "dead"
         THEN [dft |-> dft, event |-> event, thr |-> th,
               note |-> "already_running"]
         ELSE LET t == NewThread(th)
              IN  [dft |-> t, event |-> FALSE,
                   thr |-> [th EXCEPT ![t] =
                               ThreadAt("while", <<>>, 0, None, "none", 0, 0)],
                   note |-> "started"]

\* The history variable of a thread slot starts afresh with a new thread.
SigAfterStart(r) ==
    IF r.note = "started" THEN [sig EXCEPT ![r.dft] = NoSig] ELSE sig

\* A call of start_data_fetching_loop from the foreground.
Start ==
    LET r == start_data_fetching_loop(cmc_api_client, data_fetch_thread,
                                      stop_fetching_event, thr)
    IN  /\ ui.pc = "idle"
        /\ CanCreateThread
        /\ data_fetch_thread' = r.dft
        /\ stop_fetching_event' = r.event
        /\ thr' = r.thr
        /\ sig' = SigAfterStart(r)
        /\ last' = Step(0, "start", <<>>, None, <<>>, 0, {"status"}, r.note)
        /\ UNCHANGED <<cfgVars, alertVars, tkVars, cmc_api_client, ui, prompt_queued,
                       prev, raised_from, removed_keys, key_rejected, toggled, restVars>>

\* The positions of the three sleep loops.
SleepPcs == {"sleep_chk", "sleep_zz"}

\* Line 591: the condition under which stop_data_fetching_loop signals
\* and joins.
StopSignals == data_fetch_thread # 0 /\ Alive(data_fetch_thread)

\* Lines 592-594: stop_fetching_event.set() and the entry into join; the
\* caller continues at cont when the join returns.
StopSignal(cont) ==
    /\ stop_fetching_event' = TRUE
    /\ ui' = [pc |-> "join", cont |-> cont]
    /\ sig' = [sig EXCEPT ![data_fetch_thread] =
                  IF thr[data_fetch_thread].pc \in SleepPcs
                  THEN <<"sleep", thr[data_fetch_thread].site>> ELSE NoSig]
    /\ last' = Step(0, "stop_signal", <<>>, None, <<>>, 0, {}, cont)
    /\ UNCHANGED <<data_fetch_thread, thr>>

\* What the caller of stop_data_fetching_loop does once it has returned
\* (line 599 included): the plain call returns; _update_refresh_interval
\* calls start; _prompt_for_api_key_again opens the key dialog;
\* the window's close destroys the application.
AfterStop(cont, note) ==
    LET r == start_data_fetching_loop(cmc_api_client, 0,
                                      stop_fetching_event, thr)
    IN  /\ last' = Step(0, "stop_return", <<>>, None, <<>>, 0, {}, note)
        /\ CASE cont = "refresh" ->
                  /\ data_fetch_thread' = r.dft
                  /\ stop_fetching_event' = r.event
                  /\ thr' = r.thr
                  /\ sig' = SigAfterStart(r)
                  /\ ui' = [pc |-> "idle", cont |-> "none"]
             [] cont = "prompt" ->
                  /\ data_fetch_thread' = 0
                  /\ ui' = [pc |-> "dialog", cont |-> "none"]
                  /\ UNCHANGED <<stop_fetching_event, thr, sig>>
             [] cont = "quit" ->
                  /\ data_fetch_thread' = 0
                  /\ thr' = [t \in Threads |-> DeadThread]
                  /\ sig' = [t \in Threads |-> NoSig]
                  /\ ui' = [pc |-> "quit", cont |-> "none"]
                  /\ UNCHANGED stop_fetching_event
             [] OTHER ->
                  /\ data_fetch_thread' = 0
                  /\ ui' = [pc |-> "idle", cont |-> "none"]
                  /\ UNCHANGED <<stop_fetching_event, thr, sig>>

\* stop_data_fetching_loop called from the foreground, up to its return or
\* to its join.
stop_data_fetching_loop(cont) ==
    IF StopSignals THEN StopSignal(cont) ELSE AfterStop(cont, "")

\* A call of stop_data_fetching_loop on its own.
Stop ==
    /\ ui.pc = "idle"
    /\ stop_data_fetching_loop("api")
    /\ UNCHANGED <<cfgVars, alertVars, tkVars, cmc_api_client, prompt_queued,
                   prev, raised_from, removed_keys, key_rejected, toggled, restVars>>

\* Lines 594-599: join returns, because the thread has ended or because
\* the timeout has passed; the message of line 596 in the second case.
JoinReturn ==
    /\ ui.pc = "join"
    /\ ~Alive(data_fetch_thread) \/ join_timeout(data_fetch_thread)
    /\ AfterStop(ui.cont, IF Alive(data_fetch_thread) THEN "not_graceful"
                          ELSE "graceful")
    /\ UNCHANGED <<cfgVars, alertVars, tkVars, cmc_api_client, prompt_queued,
                   prev, raised_from, removed_keys, key_rejected, toggled, restVars>>

\* App._update_refresh_interval with the integer new_interval in the entry.
UpdateRefreshInterval(new_interval) ==
    /\ ui.pc = "idle"
    /\ CanCreateThread
    /\ IF new_interval >= MinInterval
          /\ refresh_interval_seconds # new_interval
       THEN /\ refresh_interval_seconds' = new_interval
            /\ stop_data_fetching_loop("refresh")
       ELSE /\ last' = Step(0, "interval_kept", <<>>, None, <<>>, 0, {}, "")
            /\ UNCHANGED <<refresh_interval_seconds, data_fetch_thread,
                           stop_fetching_event, thr, ui, sig>>
    /\ UNCHANGED <<watched_coins, sound_enabled, alertVars, tkVars, cmc_api_client,
                   prompt_queued, prev, raised_from, removed_keys,
                   key_rejected, toggled, restVars>>

\* App._prompt_for_api_key_again, run by the Tk main loop for a queued
\* self.after(0, ...): the key and the client are dropped, the loop is
\* stopped, and _check_api_key asks for a key.
PromptForApiKeyAgain ==
    /\ ui.pc = "idle"
    /\ prompt_queued
    /\ prompt_queued' = FALSE
    /\ cmc_api_client' = FALSE
    /\ stop_data_fetching_loop("prompt")
    /\ UNCHANGED <<cfgVars, alertVars, tkVars, prev, raised_from, removed_keys,
                   key_rejected, toggled, restVars>>

\* _check_api_key: the user enters a key; a client is built, and
\* _prompt_for_api_key_again calls start_data_fetching_loop.
DialogKey ==
    LET r == start_data_fetching_loop(TRUE, data_fetch_thread,
                                      stop_fetching_event, thr)
    IN  /\ ui.pc = "dialog"
        /\ CanCreateThread
        /\ cmc_api_client' = TRUE
        /\ key_rejected' = FALSE
        /\ data_fetch_thread' = r.dft
        /\ stop_fetching_event' = r.event
        /\ thr' = r.thr
        /\ sig' = SigAfterStart(r)
        /\ ui' = [pc |-> "idle", cont |-> "none"]
        /\ last' = Step(0, "new_key", <<>>, None, <<>>, 0, {"status"}, r.note)
        /\ UNCHANGED <<cfgVars, alertVars, tkVars, prompt_queued,
                       prev, raised_from, removed_keys, toggled, restVars>>

\* _check_api_key: the user gives no key; the application quits.
DialogClose ==
    /\ ui.pc = "dialog"
    /\ ui' = [pc |-> "quit", cont |-> "none"]
    /\ thr' = [t \in Threads |-> DeadThread]
    /\ sig' = [t \in Threads |-> NoSig]
    /\ last' = Step(0, "quit", <<>>, None, <<>>, 0, {}, "")
    /\ UNCHANGED <<cfgVars, alertVars, tkVars, cmc_api_client, data_fetch_thread,
                   stop_fetching_event, prompt_queued,
                   prev, raised_from, removed_keys, key_rejected, toggled, restVars>>

\* App.quit_app: stop the loop, destroy the window; the daemon threads end
\* with the process.
QuitApp ==
    /\ ui.pc = "idle"
    /\ stop_data_fetching_loop("quit")
    /\ UNCHANGED <<cfgVars, alertVars, tkVars, cmc_api_client, prompt_queued,
                   prev, raised_from, removed_keys, key_rejected, toggled, restVars>>

\* The state after App.__init__ with a key in the configuration: the
\* client exists and start_data_fetching_loop has created the first thread.
Init ==
    /\ watched_coins \in {<<>>, <<BtcAlert>>, <<NoIdEntry>>}
    /\ refresh_interval_seconds = DefaultInterval
    /\ sound_enabled = TRUE
    /\ triggered_alerts = {}
    /\ mixer_initialized = TRUE
    /\ cmc_api_client = TRUE
    /\ data_fetch_thread = 1
    /\ stop_fetching_event = FALSE
    /\ thr = [t \in Threads |->
                IF t = 1 THEN ThreadAt("while", <<>>, 0, None, "none", 0, 0)
                ELSE DeadThread]
    /\ ui = [pc |-> "idle", cont |-> "none"]
    /\ prompt_queued = FALSE
    /\ last = NoStep
    /\ prev = NoPrev
    /\ raised_from = [s \in Symbols |-> None]
    /\ removed_keys = {}
    /\ sig = [t \in Threads |-> NoSig]
    /\ key_rejected = FALSE
    /\ toggled = NoToggle
    /\ after_queue = <<>>
    /\ widgets = NoWidgets
    /\ InitRest

Next ==
    \/ \E t \in Threads : LoopStep(t)
    \/ \E t \in Threads, r \in Responses : GetQuotesReturn(t, r)
    \/ Start
    \/ Stop
    \/ JoinReturn
    \/ \E new_interval \in Intervals : UpdateRefreshInterval(new_interval)
    \/ PromptForApiKeyAgain
    \/ DialogKey
    \/ DialogClose
    \/ QuitApp

Spec == Init /\ [][Next]_vars

\* The interpreter schedules every thread that can run, and the foreground
\* returns from a join that can return; a pending HTTP response need never
\* arrive, and the user need never act.
FairSpec ==
    /\ Spec
    /\ \A t \in Threads : WF_vars(LoopStep(t))
    /\ WF_vars(JoinReturn)

(***************************************************************************)
(* SpecTick: one polling thread whose alert evaluation is followed         *)
(* statement by statement, the Tk queue of self.after, the widgets, and    *)
(* the foreground handlers that run between the thread's statements.  The  *)
(* watch list keeps its entries here, so the thread's coin_conf is the     *)
(* entry of config["watched_coins"] at the same index: the same dict       *)
(* object.  The stop event stays clear here: stopping, the sleep loop and  *)
(* the failed fetches are followed in Spec.                                *)
(***************************************************************************)
\* A callback with its arguments, as handed to self.after(0, ...).
Callback(fn, id, price, text) ==
    [fn |-> fn, id |-> id, price |-> price, text |-> text]
\* lambda: self.status_label.configure(text=...)
StatusCb(text) == Callback("status", None, None, text)
\* row.update_data, current_price, change_24h (None, None when unavailable)
UpdateCb(id, price) == Callback("update_data", id, price, "")
\* row.show_visual_alert, alert_type
AlertCb(id, type) == Callback("show_visual_alert", id, None, type)
\* self._prompt_for_api_key_again
PromptCb == Callback("prompt", None, None, "")

\* CoinRow.update_data: the text of the price label.
PriceText(price) ==
    IF price = None THEN <<"Error">>
    ELSE <<"$">> \o Digits(Val(price)) \o <<".", "0", "0">>

\* CoinRow.show_visual_alert: the background colour.
AlertColor(type) == IF type = "above" THEN "#A0FFA0" ELSE "#FFA0A0"

\* What running a callback does to the widgets.
RunCallback(w, cb) ==
    CASE cb.fn = "status" -> [w EXCEPT !.status = <<cb.text>>]
      [] cb.fn = "update_data" ->
             [w EXCEPT !.price_label[cb.id] = PriceText(cb.price)]
      [] cb.fn = "show_visual_alert" ->
             [w EXCEPT !.fg_color[cb.id] = AlertColor(cb.text)]
      [] OTHER -> w

RECURSIVE RunCallbacks(_, _)
RunCallbacks(w, cbs) ==
    IF cbs = <<>> THEN w ELSE RunCallbacks(RunCallback(w, Head(cbs)), Tail(cbs))

self_after_Direct(queue, w, cbs) ==
    [queue |-> queue, widgets |-> RunCallbacks(w, cbs)]

\* self.after(0, callback, *args) for each callback of cbs, called on the
\* polling thread: the callbacks join the queue, no widget is touched.
self_after(queue, w, cbs) == [queue |-> queue \o cbs, widgets |-> w]

\* The hand-off of a thread step, while the queue has room.
HandOff(cbs) ==
    LET r == self_after(after_queue, widgets, cbs)
    IN  /\ Len(after_queue) + Len(cbs) <= MaxQueue
        /\ after_queue' = r.queue
        /\ widgets' = r.widgets

\* App.handle_visual_alert(symbol, message, alert_type) as a hand-off: the
\* first row of that symbol.
VisualAlertCb(symbol, type) ==
    IF \E m \in 1..Len(watched_coins) : watched_coins[m].symbol = symbol
    THEN LET m == CHOOSE m \in 1..Len(watched_coins) :
                     /\ watched_coins[m].symbol = symbol
                     /\ \A k \in 1..(m - 1) : watched_coins[k].symbol # symbol
         IN  <<AlertCb(watched_coins[m].id, type)>>
    ELSE <<>>

\* What the steps of the polling thread leave alone.
TickFrame ==
    UNCHANGED <<cfgVars, mixer_initialized, data_fetch_thread,
                stop_fetching_event, ui, prev, raised_from, removed_keys, sig, restVars>>

\* The response of get_quotes in SpecTick: data, or an error naming the
\* API key.
TickResponses == {"data", "auth"}

\* What the API holds for one asset in SpecTick.
TickOutcomes == [kind : {"absent", "malformed"}, price : {None}]
                \cup [kind : {"ok"}, price : {Some(MaxPrice)}]

\* Lines 443-476 and 516-528: the loop condition, the snapshot of the
\* list, the status "Fetching data...", get_quotes and its response.
TickBegin(t, r) ==
    /\ thr[t].pc = "while"
    /\ ~stop_fetching_event
    /\ cmc_api_client
    /\ IdsToFetch(watched_coins) # <<>>
    /\ IF r = "data"
       THEN /\ HandOff(<<StatusCb("fetching")>>)
            /\ thr' = [thr EXCEPT ![t] =
                          ThreadAt("coin", watched_coins, 1, None, r, 0, 0)]
            /\ last' = Dispatch(t, "fetch", {"status"})
            /\ UNCHANGED <<prompt_queued, key_rejected>>
       ELSE /\ HandOff(<<StatusCb("api_error"), PromptCb>>)
            /\ thr' = [thr EXCEPT ![t] = DeadThread]
            /\ last' = Dispatch(t, "api_error", {"status", "prompt"})
            /\ prompt_queued' = TRUE
            /\ key_rejected' = TRUE
    /\ UNCHANGED <<triggered_alerts, cmc_api_client, toggled>>
    /\ TickFrame

\* coin_conf: the dict of the entry at the loop index, as it is now.  The
\* snapshot holds the dict objects of config["watched_coins"]: while the
\* list holds the entry, the dict has the values of the list's entry; once
\* _handle_remove_coin has dropped it from the list, only the snapshot
\* refers to it and it keeps the values it had.
CoinConf(rec) ==
    LET id == rec.watched[rec.i].id
    IN  IF \E m \in 1..Len(watched_coins) : watched_coins[m].id = id
        THEN watched_coins[CHOOSE m \in 1..Len(watched_coins) :
                               watched_coins[m].id = id]
        ELSE rec.watched[rec.i]

\* Lines 479-493 and 498-508 for the entry at the loop index.
TickCoin(t, outcome) ==
    LET rec == thr[t]
        conf == CoinConf(rec)
        row == conf.id \in coin_rows
    IN  /\ rec.pc = "coin"
        /\ conf.id = None => outcome.kind = "absent"
        /\ ~stop_fetching_event
        /\ HandOff(IF row THEN <<UpdateCb(conf.id, outcome.price)>> ELSE <<>>)
        /\ thr' = [thr EXCEPT ![t] =
                      IF outcome.kind # "ok" THEN NextCoin(rec)
                      ELSE [rec EXCEPT !.pc = "eval",
                                       !.price = outcome.price]]
        /\ last' = Dispatch(t, "row",
                      IF ~row THEN {}
                      ELSE IF outcome.kind # "ok" THEN {"unavailable"}
                      ELSE {"update"})
        /\ UNCHANGED <<triggered_alerts, cmc_api_client, prompt_queued,
                       key_rejected, toggled>>
        /\ TickFrame

\* alert_manager.py line 89, called at gui.py line 495.
TickEvalEnter(t) ==
    LET rec == thr[t]
        conf == CoinConf(rec)
    IN  /\ rec.pc = "eval"
        /\ thr' = [thr EXCEPT ![t] =
                      IF ~conf.alert_active \/ rec.price = None
                      THEN NextCoin(rec)
                      ELSE [rec EXCEPT !.pc = "above"]]
        /\ toggled' = IF conf.alert_active /\ toggled[conf.symbol] = "on"
                      THEN [toggled EXCEPT ![conf.symbol] = "eval"]
                      ELSE toggled
        /\ last' = Quiet
        /\ UNCHANGED <<triggered_alerts, cmc_api_client, prompt_queued,
                       key_rejected, tkVars>>
        /\ TickFrame

\* Where the call goes after the block of one bound kind.
AfterKind(rec, kind) ==
    IF kind = "above" THEN [rec EXCEPT !.pc = "below"] ELSE NextCoin(rec)

\* Lines 95-104 and 108-109 (112-121 and 125-126): the bound is read from
\* coin_config into a local; beyond it and not triggered -> sound, visual
\* callback, and the store of line 105 is still to come; set and not
\* beyond it -> pop.
TickBound(t) ==
    LET rec == thr[t]
        kind == rec.pc
        conf == CoinConf(rec)
        limit == Limit(conf, kind)
        beyond == IF limit = None THEN FALSE
                  ELSE Beyond(kind, Val(rec.price), Val(limit))
        alert_id == AlertId(conf.symbol, conf.id, kind, Val(limit))
        fires == IF beyond THEN alert_id \notin triggered_alerts ELSE FALSE
        seen == [rec EXCEPT !.watched[rec.i] = conf]
    IN  /\ rec.pc \in Kinds
        /\ IF fires
           THEN /\ HandOff(VisualAlertCb(conf.symbol, kind))
                /\ last' = Step(t, "eval", conf.symbol, rec.price,
                                <<Event(conf.symbol, kind)>>,
                                IF sound_enabled /\ mixer_initialized
                                THEN 1 ELSE 0,
                                handle_visual_alert(<<Event(conf.symbol, kind)>>),
                                "")
                /\ thr' = [thr EXCEPT ![t] =
                              [seen EXCEPT !.pc = IF kind = "above"
                                                  THEN "mark_above"
                                                  ELSE "mark_below"]]
                /\ UNCHANGED triggered_alerts
           ELSE /\ triggered_alerts' =
                      IF limit # None /\ ~beyond
                      THEN triggered_alerts \ {alert_id}
                      ELSE triggered_alerts
                /\ last' = Step(t, "eval", conf.symbol, rec.price, <<>>, 0,
                                {}, "")
                /\ thr' = [thr EXCEPT ![t] = AfterKind(seen, kind)]
                /\ UNCHANGED tkVars
        /\ toggled' = IF toggled[conf.symbol] # "eval" THEN toggled
                      ELSE [toggled EXCEPT ![conf.symbol] =
                               IF beyond THEN "none"
                               ELSE IF kind = "below" THEN "on" ELSE "eval"]
        /\ UNCHANGED <<cmc_api_client, prompt_queued, key_rejected>>
        /\ TickFrame

\* Line 105 (122): self.triggered_alerts[alert_id] = True, with the
\* alert_id computed from the bound read before.
TickMark(t) ==
    LET rec == thr[t]
        kind == IF rec.pc = "mark_above" THEN "above" ELSE "below"
        seen == rec.watched[rec.i]
    IN  /\ rec.pc \in {"mark_above", "mark_below"}
        /\ triggered_alerts' = triggered_alerts \cup
              {AlertId(seen.symbol, seen.id, kind, Val(Limit(seen, kind)))}
        /\ thr' = [thr EXCEPT ![t] = AfterKind([rec EXCEPT !.pc = kind], kind)]
        /\ last' = Quiet
        /\ UNCHANGED <<cmc_api_client, prompt_queued, key_rejected, toggled,
                       tkVars>>
        /\ TickFrame

\* Lines 509-514: the status "Data updated" or "partially updated".
TickEnd(t) ==
    /\ thr[t].pc = "after_coins"
    /\ ~stop_fetching_event
    /\ HandOff(<<StatusCb("updated")>>)
    /\ thr' = [thr EXCEPT ![t] =
                  ThreadAt("sleep", <<>>, 0, None, "none", 3, 0)]
    /\ last' = Dispatch(t, "updated", {"status"})
    /\ UNCHANGED <<triggered_alerts, cmc_api_client, prompt_queued,
                   key_rejected, toggled>>
    /\ TickFrame

\* Lines 534-537: the sleep loop over range(refresh_interval), as a whole.
TickSleep(t) ==
    /\ thr[t].pc = "sleep"
    /\ thr' = [thr EXCEPT ![t] = ThreadAt("while", <<>>, 0, None, "none", 0, 0)]
    /\ last' = Quiet
    /\ UNCHANGED <<triggered_alerts, cmc_api_client, prompt_queued,
                   key_rejected, toggled, tkVars>>
    /\ TickFrame

\* One step of the polling thread in SpecTick.
TickStep(t) ==
    \/ \E r \in TickResponses : TickBegin(t, r)
    \/ \E outcome \in TickOutcomes : TickCoin(t, outcome)
    \/ TickEvalEnter(t)
    \/ TickBound(t)
    \/ TickMark(t)
    \/ TickEnd(t)
    \/ TickSleep(t)

\* The Tk main loop runs the oldest callback of the queue.  The prompt is
\* _prompt_for_api_key_again up to the key dialog; the loop that queued it
\* has ended, so its stop_data_fetching_loop has nothing to join.
RunAfter ==
    LET cb == Head(after_queue)
    IN  /\ ui.pc = "idle"
        /\ after_queue # <<>>
        /\ after_queue' = Tail(after_queue)
        /\ widgets' = RunCallback(widgets, cb)
        /\ IF cb.fn = "prompt"
           THEN /\ ~StopSignals
                /\ prompt_queued' = FALSE
                /\ cmc_api_client' = FALSE
                /\ data_fetch_thread' = 0
                /\ ui' = [pc |-> "dialog", cont |-> "none"]
           ELSE UNCHANGED <<prompt_queued, cmc_api_client, data_fetch_thread,
                            ui>>
        /\ last' = Step(0, "run_after", <<>>, None, <<>>, 0, {cb.fn}, "")
        /\ UNCHANGED <<cfgVars, alertVars, stop_fetching_event, thr,
                       histVars, restVars>>

\* App._fetch_data_once(coins_to_fetch_config) for the list holding the
\* i-th entry, called on the foreground: get_quotes, then the row is
\* updated directly, and the status label is set.  _add_coin_action calls
\* it with the entry it has just appended; here it is called with any
\* entry of the list, as its parameter allows.
FetchDataOnce(i, outcome) ==
    LET conf == watched_coins[i]
    IN  /\ ui.pc = "idle"
        /\ cmc_api_client
        /\ conf.id # None
        /\ widgets' =
              [widgets EXCEPT
                  !.status = <<"fetched">>,
                  !.price_label[conf.id] =
                      IF outcome.kind = "absent" \/ conf.id \notin coin_rows
                      THEN @ ELSE PriceText(outcome.price)]
        /\ last' = Step(0, "fetch_once", conf.symbol, outcome.price,
                        <<>>, 0, {}, "")
        /\ UNCHANGED <<cfgVars, alertVars, schedVars, histVars, after_queue, restVars>>

\* The watch lists a config.json can hold: entries as _add_coin_action
\* writes them.
WatchLists ==
    {<<>>, <<NewCoinConfig(BTC)>>, <<NewCoinConfig(ETH)>>,
     <<NewCoinConfig(BTC), NewCoinConfig(ETH)>>,
     <<NewCoinConfig(ETH), NewCoinConfig(BTC)>>}

\* A config.json with both keys, as save_config writes it.
JsonFile(interval, watched) ==
    [kind |-> "json", interval |-> Some(interval), watched |-> Some(watched)]

\* The kinds of config.json load_config can find: no file, a file that is
\* not JSON, a JSON object with or without "refresh_interval_seconds" and
\* with or without "watched_coins".
ConfigFiles ==
    [kind : {"missing", "invalid"}, interval : {None}, watched : {None}]
    \cup [kind : {"json"},
          interval : {None, Some(MinInterval - 1), Some(DefaultInterval)},
          watched : {None} \cup {Some(l) : l \in WatchLists}]

\* load_config() for the file f and the current DEFAULT_CONFIG: the two
\* keys of the returned dict, whether its "watched_coins" is the list object
\* of DEFAULT_CONFIG, and the file afterwards.  No file: the default is
\* saved and DEFAULT_CONFIG.copy() returned, a copy of the dict that holds
\* the same list.  Not JSON: DEFAULT_CONFIG.copy().  JSON: each missing key
\* gets the default's value (for "watched_coins" the default's list itself)
\* and the dict is saved; the stored values are taken as they are.
load_config(f, default) ==
    IF f.kind = "missing"
    THEN [refresh_interval_seconds |-> DefaultInterval,
          watched_coins |-> default.watched_coins,
          shares_default |-> TRUE,
          path |-> "created",
          file |-> JsonFile(DefaultInterval, default.watched_coins)]
    ELSE IF f.kind = "invalid"
    THEN [refresh_interval_seconds |-> DefaultInterval,
          watched_coins |-> default.watched_coins,
          shares_default |-> TRUE,
          path |-> "default",
          file |-> f]
    ELSE LET interval == IF f.interval = None THEN DefaultInterval
                         ELSE Val(f.interval)
             watched == IF f.watched = None THEN default.watched_coins
                        ELSE Val(f.watched)
             updated == f.interval = None \/ f.watched = None
         IN  [refresh_interval_seconds |-> interval,
              watched_coins |-> watched,
              shares_default |-> f.watched = None,
              path |-> IF f.watched = None THEN "filled" ELSE "file",
              file |-> IF updated THEN JsonFile(interval, watched) ELSE f]

\* A watched asset with an active upper bound.
ActiveAbove(u) ==
    [symbol |-> u.symbol, id |-> u.id, alert_above |-> Some(1),
     alert_below |-> None, alert_active |-> TRUE]

\* The state after App.__init__ with a configuration file of two watched
\* assets: the interval is what load_config returns.
InitTick ==
    /\ watched_coins = <<ActiveAbove(BTC), ActiveAbove(ETH)>>
    /\ refresh_interval_seconds \in
          {load_config(f, DefaultDict).refresh_interval_seconds :
              f \in ConfigFiles}
    /\ sound_enabled = TRUE
    /\ triggered_alerts = {}
    /\ mixer_initialized = TRUE
    /\ cmc_api_client = TRUE
    /\ data_fetch_thread = 1
    /\ stop_fetching_event = FALSE
    /\ thr = [t \in Threads |->
                IF t = 1 THEN ThreadAt("while", <<>>, 0, None, "none", 0, 0)
                ELSE DeadThread]
    /\ ui = [pc |-> "idle", cont |-> "none"]
    /\ prompt_queued = FALSE
    /\ last = NoStep
    /\ prev = NoPrev
    /\ raised_from = [s \in Symbols |-> None]
    /\ removed_keys = {}
    /\ sig = [t \in Threads |-> NoSig]
    /\ key_rejected = FALSE
    /\ toggled = NoToggle
    /\ after_queue = <<>>
    /\ widgets = NoWidgets
    /\ InitRest

\* The rows whose alert switch the user clicks in SpecTick.
UserRows == {1}

NextTick ==
    \/ \E t \in Threads : TickStep(t)
    \/ RunAfter
    \/ \E i \in UserRows, is_active \in BOOLEAN :
          HandleToggleAlertActive(i, is_active)
    \/ \E i \in 1..Len(watched_coins), outcome \in TickOutcomes :
          FetchDataOnce(i, outcome)
    \/ DialogKey

SpecTick == InitTick /\ [][NextTick]_vars

(***************************************************************************)
(* SpecTickRemove: SpecTick with the removal of a watched asset.           *)
(***************************************************************************)
\* The snapshot of a thread after the dict conf has left the list: the
\* snapshot still refers to the dict, with the values it has now.
KeepDict(rec, conf) ==
    [rec EXCEPT !.watched =
        [n \in 1..Len(rec.watched) |->
            IF rec.watched[n].id = conf.id THEN conf ELSE rec.watched[n]]]

\* App._handle_remove_coin(symbol, coin_id) for the i-th entry while a
\* polling thread runs: the list is rebound to a new list without the
\* entry, the row is deleted, the asset's keys are deleted.
TickRemoveCoin(i) ==
    LET conf == watched_coins[i]
        after == reset_all_alerts_for_coin(triggered_alerts, conf.symbol, conf.id)
    IN  /\ ui.pc = "idle"
        /\ watched_coins' = WithoutId(watched_coins, conf.id)
        /\ triggered_alerts' = after
        /\ thr' = [t \in Threads |-> KeepDict(thr[t], conf)]
        /\ removed_keys' =
              {key \in removed_keys :
                  ~StartsWith(key, AlertKeyBase(conf.symbol, conf.id) \o <<"_">>)}
              \cup (triggered_alerts \ after)
        /\ toggled' = [toggled EXCEPT ![conf.symbol] = "none"]
        /\ last' = Step(0, "remove_coin", conf.symbol, None, <<>>, 0, {}, "")
        /\ UNCHANGED <<refresh_interval_seconds, sound_enabled,
                       mixer_initialized, tkVars, cmc_api_client,
                       data_fetch_thread, stop_fetching_event, ui,
                       prompt_queued, prev, raised_from, sig, key_rejected,
                       restVars>>

\* The user removes the first asset and switches the alerts of the row that
\* is then first; the rest is NextTick.
NextTickRemove ==
    \/ \E t \in Threads : TickStep(t)
    \/ RunAfter
    \/ \E i \in UserRows, is_active \in BOOLEAN :
          /\ i <= Len(watched_coins)
          /\ watched_coins[i].id # BTC.id
          /\ HandleToggleAlertActive(i, is_active)
    \/ \E i \in 1..Len(watched_coins), outcome \in TickOutcomes :
          FetchDataOnce(i, outcome)
    \/ DialogKey
    \/ \E i \in UserRows :
          /\ i <= Len(watched_coins)
          /\ watched_coins[i].id = BTC.id
          /\ TickRemoveCoin(i)

SpecTickRemove == InitTick /\ [][NextTickRemove]_vars

(***************************************************************************)
(* SpecCache: the coin-list cache of CoinGeckoAPI and the clock.           *)
(***************************************************************************)
\* Multiples of the cache duration the clock can advance by.
MaxEras == 2

\* The values time.time() takes: around each multiple of the cache duration
\* after the start.
TimePoints ==
    {StartTime + k * COIN_LIST_CACHE_DURATION + d : k \in 0..MaxEras, d \in {0, 1}}
    \cup {StartTime + k * COIN_LIST_CACHE_DURATION - 1 : k \in 1..MaxEras}

\* What /coins/list answers with: an empty list or a list of one coin.
CoinLists == {<<>>, <<[id |-> "xyz-coin", symbol |-> "xyz"]>>}

\* The outcomes of requests.get(...) with raise_for_status(): a
\* RequestException, or a response with a JSON list.
FetchOutcomes == [kind : {"error"}, list : {<<>>}]
                 \cup [kind : {"ok"}, list : CoinLists]

\* Symbols asked for (lower case): a hardcoded one, one of the list, one
\* that no list holds.
AskedSymbols == {"btc", "xyz", "nope"}

_fetch_coin_list_KeepOnError(cache, last_updated, now, outcome) ==
    IF outcome.kind = "ok"
    THEN [cache |-> Some(outcome.list), last_updated |-> now, ok |-> TRUE]
    ELSE [cache |-> cache, last_updated |-> last_updated, ok |-> FALSE]

\* CoinGeckoAPI._fetch_coin_list: the new cache and time stamp, and the
\* return value.
_fetch_coin_list(cache, last_updated, now, outcome) ==
    IF outcome.kind = "ok"
    THEN [cache |-> Some(outcome.list), last_updated |-> now, ok |-> TRUE]
    ELSE [cache |-> None, last_updated |-> last_updated, ok |-> FALSE]

\* "not self.coin_list_cache": None and the empty list are both false.
Falsy(cache) == IF cache = None THEN TRUE ELSE Val(cache) = <<>>

\* The lookup in a non-empty list: the hardcoded symbols first, then the
\* coin of the list with that symbol.
LookupId(list, symbol) ==
    IF symbol = "btc" THEN Some("bitcoin")
    ELSE IF \E n \in 1..Len(list) : list[n].symbol = symbol
         THEN Some(list[CHOOSE n \in 1..Len(list) : list[n].symbol = symbol].id)
         ELSE None

\* Line 49: the condition under which the list is fetched.
NeedsFetch(cache, last_updated, now) ==
    Falsy(cache) \/ now - last_updated > COIN_LIST_CACHE_DURATION

\* CoinGeckoAPI.get_coin_id_by_symbol(target_symbol) at time now, with the
\* outcome a fetch would have: the new cache and time stamp, whether a
\* fetch was made, and the return value.
get_coin_id_by_symbol(cache, last_updated, now, symbol, outcome) ==
    LET fetch == NeedsFetch(cache, last_updated, now)
        f == IF fetch THEN _fetch_coin_list(cache, last_updated, now, outcome)
             ELSE [cache |-> cache, last_updated |-> last_updated, ok |-> TRUE]
    IN  [cache |-> f.cache, last_updated |-> f.last_updated, fetched |-> fetch,
         failed |-> ~f.ok,
         result |-> IF ~f.ok \/ Falsy(f.cache) THEN None
                    ELSE LookupId(Val(f.cache), symbol)]

\* What the variables of the application hold in the specifications that
\* follow one module on its own: no thread, nothing queued, no history.
InitIdle ==
    /\ refresh_interval_seconds = DefaultInterval
    /\ sound_enabled = TRUE
    /\ mixer_initialized = TRUE
    /\ cmc_api_client = TRUE
    /\ data_fetch_thread = 0
    /\ stop_fetching_event = FALSE
    /\ thr = [t \in Threads |-> DeadThread]
    /\ ui = [pc |-> "idle", cont |-> "none"]
    /\ prompt_queued = FALSE
    /\ last = NoStep
    /\ prev = NoPrev
    /\ raised_from = [s \in Symbols |-> None]
    /\ removed_keys = {}
    /\ sig = [t \in Threads |-> NoSig]
    /\ key_rejected = FALSE
    /\ toggled = NoToggle
    /\ after_queue = <<>>
    /\ widgets = NoWidgets

InitCache ==
    /\ InitIdle
    /\ watched_coins = <<>>
    /\ triggered_alerts = {}
    /\ InitRest

\* A call of get_coin_id_by_symbol (from _show_price_chart).
GetCoinIdBySymbol(symbol, outcome) ==
    LET r == get_coin_id_by_symbol(coin_list_cache, coin_list_last_updated,
                                   clock, symbol, outcome)
    IN  /\ coin_list_cache' = r.cache
        /\ coin_list_last_updated' = r.last_updated
        /\ last' = Step(0, "get_coin_id", <<symbol>>, None, <<>>, 0,
                        IF ~r.fetched THEN {}
                        ELSE IF r.failed THEN {"fetch", "failed"}
                        ELSE {"fetch"},
                        IF r.result = None THEN "None" ELSE Val(r.result))
        /\ UNCHANGED <<cfgVars, alertVars, schedVars, histVars, tkVars,
                       config_file, DEFAULT_CONFIG, shares_default, clock,
                       cleaned_alerts, orphaned>>

\* Time passes.
ClockAdvance(now) ==
    /\ now > clock
    /\ clock' = now
    /\ last' = Step(0, "clock", <<>>, None, <<>>, 0, {}, "")
    /\ UNCHANGED <<cfgVars, alertVars, schedVars, histVars, tkVars,
                   config_file, DEFAULT_CONFIG, shares_default,
                   coin_list_cache, coin_list_last_updated, cleaned_alerts,
                   orphaned>>

NextCache ==
    \/ \E symbol \in AskedSymbols, outcome \in FetchOutcomes :
          GetCoinIdBySymbol(symbol, outcome)
    \/ \E now \in TimePoints : ClockAdvance(now)

SpecCache == InitCache /\ [][NextCache]_vars

(***************************************************************************)
(* SpecEngine: the AlertManager under any caller.  The caller owns the     *)
(* coin_config dicts, changes a bound with or without the cleanup call,    *)
(* and calls the three methods in any order.  cleaned_alerts is the map of *)
(* a second AlertManager that receives the same calls and the cleanup call *)
(* at every change of a bound.                                             *)
(***************************************************************************)
\* An asset whose symbol holds an underscore: "BTC_1", id 2.
BTC_1 == [symbol |-> <<"BTC", "_", "1">>, id |-> Some(2)]

\* The bound values the caller uses, and the prices it feeds: below, between
\* and beyond the two values.
EngineThresholds == {1, MaxPrice}
OptEngineThresholds == {None} \cup {Some(v) : v \in EngineThresholds}
EnginePrices == {None} \cup {Some(p) : p \in 0..(MaxPrice + 1)}

\* A coin_config with alerts switched on and the bound above.
EngineConfig(u, above) ==
    [symbol |-> u.symbol, id |-> u.id, alert_above |-> above,
     alert_below |-> None, alert_active |-> TRUE]

InitEngine ==
    /\ InitIdle
    /\ watched_coins = <<EngineConfig(BTC, None), EngineConfig(BTC_1, Some(1))>>
    /\ triggered_alerts = {}
    /\ InitRest

\* A bound value left behind for an asset and a bound kind.
Orphan(symbol, kind, value) ==
    [symbol |-> symbol, kind |-> kind, value |-> value]

\* The bound values of conf that are set, as orphans would name them.
CurrentBounds(conf) ==
    {Orphan(conf.symbol, k, Val(Limit(conf, k))) :
        k \in {kk \in Kinds : Limit(conf, kk) # None}}

\* What an action of SpecEngine leaves alone.
engineFrame == <<refresh_interval_seconds, sound_enabled, mixer_initialized,
                 schedVars, histVars, tkVars, config_file, DEFAULT_CONFIG,
                 shares_default, coin_list_cache, coin_list_last_updated,
                 clock>>

\* check_and_trigger_alerts(symbol, id, p, coin_config) for the i-th dict.
\* An evaluation brings the entries of the current bounds up to date.
EngineCheck(i, p) ==
    LET conf == watched_coins[i]
        r == check_and_trigger_alerts(triggered_alerts, conf.symbol, conf.id,
                                      p, conf, sound_enabled, mixer_initialized)
        c == check_and_trigger_alerts(cleaned_alerts, conf.symbol, conf.id,
                                      p, conf, sound_enabled, mixer_initialized)
    IN  /\ triggered_alerts' = r.trig
        /\ cleaned_alerts' = c.trig
        /\ orphaned' = IF conf.alert_active /\ p # None
                       THEN orphaned \ CurrentBounds(conf)
                       ELSE orphaned
        /\ last' = Step(0, "check", conf.symbol, p, r.ev, r.snd, {}, "")
        /\ UNCHANGED <<watched_coins, engineFrame>>

\* The caller stores a new bound in the i-th dict: with the cleanup call
\* (as _handle_update_coin_alert_value does, lines 389-394) or without it.
EngineSetBound(i, alert_type, new_value, cleanup) ==
    LET conf == watched_coins[i]
        kind == IF alert_type = "alert_above" THEN "above" ELSE "below"
        old_value == conf[alert_type]
        fired == IF old_value = None THEN FALSE
                 ELSE AlertId(conf.symbol, conf.id, kind, Val(old_value))
                         \in triggered_alerts
        stale == IF new_value = None THEN FALSE
                 ELSE Orphan(conf.symbol, kind, Val(new_value)) \in orphaned
    IN  /\ old_value # new_value
        /\ triggered_alerts' =
              IF cleanup /\ old_value # None
              THEN reset_alert_state(triggered_alerts, conf.symbol, conf.id,
                                     kind, Val(old_value))
              ELSE triggered_alerts
        /\ cleaned_alerts' =
              IF old_value # None
              THEN reset_alert_state(cleaned_alerts, conf.symbol, conf.id,
                                     kind, Val(old_value))
              ELSE cleaned_alerts
        /\ watched_coins' = SetField(i, alert_type, new_value)
        /\ orphaned' =
              IF old_value = None THEN orphaned
              ELSE IF cleanup
                   THEN orphaned \ {Orphan(conf.symbol, kind, Val(old_value))}
                   ELSE IF fired
                        THEN orphaned
                             \cup {Orphan(conf.symbol, kind, Val(old_value))}
                        ELSE orphaned
        /\ last' = Step(0, "set_bound", conf.symbol, new_value, <<>>, 0,
                        {kind} \cup (IF cleanup THEN {"cleanup"} ELSE {}),
                        IF ~fired THEN ""
                        ELSE IF stale THEN "fired_stale" ELSE "fired")
        /\ UNCHANGED engineFrame

\* The caller switches the alerts of the i-th dict on or off.
EngineSetActive(i, active) ==
    /\ watched_coins[i].alert_active # active
    /\ watched_coins' = SetField(i, "alert_active", active)
    /\ last' = Step(0, "set_active", watched_coins[i].symbol, None, <<>>, 0,
                    {}, "")
    /\ UNCHANGED <<triggered_alerts, cleaned_alerts, orphaned, engineFrame>>

\* reset_alert_state(symbol, id, kind, value) for the i-th dict.
EngineResetAlertState(i, kind, value) ==
    LET conf == watched_coins[i]
    IN  /\ triggered_alerts' =
              reset_alert_state(triggered_alerts, conf.symbol, conf.id,
                                kind, value)
        /\ cleaned_alerts' =
              reset_alert_state(cleaned_alerts, conf.symbol, conf.id,
                                kind, value)
        /\ orphaned' = orphaned \ {Orphan(conf.symbol, kind, value)}
        /\ last' = Step(0, "reset_alert_state", conf.symbol, Some(value),
                        <<>>, 0, {kind}, "")
        /\ UNCHANGED <<watched_coins, engineFrame>>

\* reset_all_alerts_for_coin(symbol, id) for the i-th dict.
EngineResetAll(i) ==
    LET conf == watched_coins[i]
    IN  /\ triggered_alerts' =
              reset_all_alerts_for_coin(triggered_alerts, conf.symbol, conf.id)
        /\ cleaned_alerts' =
              reset_all_alerts_for_coin(cleaned_alerts, conf.symbol, conf.id)
        /\ orphaned' = {o \in orphaned : o.symbol # conf.symbol}
        /\ last' = Step(0, "reset_all", conf.symbol, None, <<>>, 0, {}, "")
        /\ UNCHANGED <<watched_coins, engineFrame>>

\* The caller changes the settings of the first dict only; the second keeps
\* its upper bound and is evaluated below and above it.
NextEngine ==
    \/ \E p \in EnginePrices : EngineCheck(1, p)
    \/ \E p \in {Some(0), Some(MaxPrice)} : EngineCheck(2, p)
    \/ \E alert_type \in {"alert_above", "alert_below"},
          new_value \in OptEngineThresholds, cleanup \in BOOLEAN :
          EngineSetBound(1, alert_type, new_value, cleanup)
    \/ \E active \in BOOLEAN : EngineSetActive(1, active)
    \/ \E i \in {1, 2}, kind \in Kinds, value \in EngineThresholds :
          EngineResetAlertState(i, kind, value)
    \/ \E i \in {1, 2} : EngineResetAll(i)

SpecEngine == InitEngine /\ [][NextEngine]_vars

(***************************************************************************)
(* SpecConfig: load_config, the module-level DEFAULT_CONFIG, config.json   *)
(* and the handlers that change the watch list and save it.                *)
(***************************************************************************)
\* Before App.__init__: the module config_manager is imported, nothing is
\* loaded, there is no API client yet.
InitConfig ==
    /\ watched_coins = <<>>
    /\ refresh_interval_seconds = DefaultInterval
    /\ sound_enabled = TRUE
    /\ triggered_alerts = {}
    /\ mixer_initialized = TRUE
    /\ cmc_api_client = FALSE
    /\ data_fetch_thread = 0
    /\ stop_fetching_event = FALSE
    /\ thr = [t \in Threads |-> DeadThread]
    /\ ui = [pc |-> "idle", cont |-> "none"]
    /\ prompt_queued = FALSE
    /\ last = NoStep
    /\ prev = NoPrev
    /\ raised_from = [s \in Symbols |-> None]
    /\ removed_keys = {}
    /\ sig = [t \in Threads |-> NoSig]
    /\ key_rejected = FALSE
    /\ toggled = NoToggle
    /\ after_queue = <<>>
    /\ widgets = NoWidgets
    /\ InitRest

\* What the actions of SpecConfig leave alone.
configFrame == <<sound_enabled, alertVars, data_fetch_thread,
                 stop_fetching_event, thr, ui, prompt_queued, histVars,
                 tkVars, coin_list_cache, coin_list_last_updated, clock,
                 cleaned_alerts, orphaned>>

\* self.config = load_config() (gui.py line 172), followed by the creation
\* of the API client; or any later call of load_config whose result
\* replaces the configuration.
LoadConfig ==
    LET r == load_config(config_file, DEFAULT_CONFIG)
    IN  /\ watched_coins' = r.watched_coins
        /\ refresh_interval_seconds' = r.refresh_interval_seconds
        /\ shares_default' = r.shares_default
        /\ config_file' = r.file
        /\ cmc_api_client' = TRUE
        /\ last' = Step(0, "load_config", <<>>, None, <<>>, 0, {}, r.path)
        /\ UNCHANGED <<DEFAULT_CONFIG, configFrame>>

\* _add_coin_action, lines 346-361: the new entry is appended to the list
\* object of config["watched_coins"], in place, and the configuration is
\* saved.  When that list is the list of DEFAULT_CONFIG, the default grows
\* with it.
ConfigAddCoin(u) ==
    LET appended == Append(watched_coins, NewCoinConfig(u))
    IN  /\ cmc_api_client
        /\ \A n \in 1..Len(watched_coins) :
              watched_coins[n].symbol # u.symbol /\ watched_coins[n].id # u.id
        /\ watched_coins' = appended
        /\ DEFAULT_CONFIG' = IF shares_default
                             THEN [DEFAULT_CONFIG EXCEPT !.watched_coins = appended]
                             ELSE DEFAULT_CONFIG
        /\ config_file' = JsonFile(refresh_interval_seconds, appended)
        /\ last' = Step(0, "add_coin", u.symbol, None, <<>>, 0, {}, "")
        /\ UNCHANGED <<refresh_interval_seconds, shares_default,
                       cmc_api_client, configFrame>>

\* _handle_remove_coin, lines 375-376: config["watched_coins"] is rebound
\* to a new list, which is saved; DEFAULT_CONFIG keeps its list.
ConfigRemoveCoin(i) ==
    LET rest == WithoutId(watched_coins, watched_coins[i].id)
    IN  /\ cmc_api_client
        /\ watched_coins' = rest
        /\ shares_default' = FALSE
        /\ config_file' = JsonFile(refresh_interval_seconds, rest)
        /\ last' = Step(0, "remove_coin", watched_coins[i].symbol, None,
                        <<>>, 0, {}, "")
        /\ UNCHANGED <<refresh_interval_seconds, DEFAULT_CONFIG,
                       cmc_api_client, configFrame>>

\* What the user can do to config.json outside the program: delete it,
\* damage it, or leave a JSON object without "watched_coins".
EditedFiles ==
    {f \in ConfigFiles : f.watched = None /\ f.interval # Some(MinInterval - 1)}

EditFile(f) ==
    /\ config_file # f
    /\ config_file' = f
    /\ last' = Step(0, "edit_file", <<>>, None, <<>>, 0, {}, f.kind)
    /\ UNCHANGED <<cfgVars, DEFAULT_CONFIG, shares_default, cmc_api_client,
                   configFrame>>

NextConfig ==
    \/ LoadConfig
    \/ \E u \in Universe : ConfigAddCoin(u)
    \/ \E i \in 1..Len(watched_coins) : ConfigRemoveCoin(i)
    \/ \E f \in EditedFiles : EditFile(f)

SpecConfig == InitConfig /\ [][NextConfig]_vars

(***************************************************************************)
(* The sound path of the AlertManager.                                     *)
(***************************************************************************)
\* What becomes of a playback: the sound is played, the sound file is
\* missing (line 45), pygame fails in the sound thread (line 70), or the
\* sound thread cannot be started (line 57).
PlaybackOutcomes == {"played", "file_missing", "pygame_error", "thread_error"}

\* The symbol under which the sound path reports to
\* gui_callback_visual_alert.
SoundError == [symbol |-> <<"Sound Error">>, type |-> "error"]

\* play_alert_sound with _actually_play_sound: the calls of
\* gui_callback_visual_alert it makes.  Nothing is returned to the caller
\* and no exception leaves it.
play_alert_sound(sound, mixer, outcome) ==
    IF ~mixer \/ ~sound \/ outcome = "played" THEN <<>> ELSE <<SoundError>>

RECURSIVE VisualCalls(_, _, _, _)
\* All calls of gui_callback_visual_alert during one
\* check_and_trigger_alerts that fires the events ev: before each event,
\* when sound is enabled, what play_alert_sound reports (lines 101-104).
VisualCalls(ev, sound, mixer, outcome) ==
    IF ev = <<>> THEN <<>>
    ELSE (IF sound THEN play_alert_sound(sound, mixer, outcome) ELSE <<>>)
         \o <<Head(ev)>> \o VisualCalls(Tail(ev), sound, mixer, outcome)

\* The calls that are alerts of an asset.
AlertEvents(calls) == SelectSeq(calls, LAMBDA c : c.type \in Kinds)

(***************************************************************************)
(* Claims about the alert engine, checked under SpecAlert.                 *)
(***************************************************************************)
Watched == 1..Len(watched_coins)

\* C2 (hysteresis).  For an asset whose alerts are active, and for each
\* bound kind that is set: a call with a price emits the event of that kind
\* exactly when the price is beyond the bound and the previous sample fed
\* under this bound was not beyond it, or there was none.
C2_Hysteresis ==
    [][\A i \in Watched, p \in Prices, k \in Kinds :
          LET conf == watched_coins[i]
              before == prev[conf.symbol][k]
          IN  (/\ Check(i, Some(p))
               /\ conf.alert_active
               /\ Limit(conf, k) # None)
              => (Emitted(last', conf.symbol, k)
                    <=> /\ Beyond(k, p, Val(Limit(conf, k)))
                        /\ \/ before = None
                           \/ ~Beyond(k, Val(before), Val(Limit(conf, k))))
      ]_vars

\* A second consecutive sample above the bound has just been fed and
\* produced no event.
C2_Witness ==
    /\ last.op = "check"
    /\ last.price # None
    /\ last.ev = <<>>
    /\ \E i \in Watched :
          /\ watched_coins[i].symbol = last.symbol
          /\ watched_coins[i].alert_active
          /\ watched_coins[i].alert_above # None
          /\ Val(last.price) > Val(watched_coins[i].alert_above)

\* C3.  A call whose configuration has alert_active false emits no visual
\* alert, starts no sound and leaves triggered_alerts as it was.
C3_InactiveSilent ==
    [][\A i \in Watched, p \in OptPrices :
          (Check(i, p) /\ ~watched_coins[i].alert_active)
          => /\ last'.ev = <<>>
             /\ last'.snd = 0
             /\ triggered_alerts' = triggered_alerts
      ]_vars

\* An inactive asset has just been fed a price beyond one of its bounds.
C3_Witness ==
    /\ last.op = "check"
    /\ last.price # None
    /\ last.ev = <<>>
    /\ \E i \in Watched, k \in Kinds :
          LET conf == watched_coins[i]
          IN  /\ conf.symbol = last.symbol
              /\ ~conf.alert_active
              /\ Limit(conf, k) # None
              /\ Beyond(k, Val(last.price), Val(Limit(conf, k)))

\* C4.  After the above-alert fired at T1 and the bound was raised to T2
\* by _handle_update_coin_alert_value: until the first price above T2, a
\* price p <= T2 emits no above-event (and no event at all unless it
\* crosses the lower bound), and the first price above T2 emits exactly
\* one above-event.
C4_RaisedThreshold ==
    [][\A i \in Watched, p \in Prices :
          LET conf == watched_coins[i]
              T1 == Val(raised_from[conf.symbol])
              T2 == Val(conf.alert_above)
              above == SelectSeq(last'.ev, LAMBDA e : e.type = "above")
          IN  (/\ Check(i, Some(p))
               /\ conf.alert_active
               /\ raised_from[conf.symbol] # None)
              => /\ T1 < T2
                 /\ p <= T2 => above = <<>>
                 /\ (p <= T2 /\ (conf.alert_below = None
                                   \/ p >= Val(conf.alert_below)))
                       => last'.ev = <<>>
                 /\ p > T2 => above = <<Event(conf.symbol, "above")>>
      ]_vars

\* The first price above the raised bound has just fired.
C4_Witness ==
    /\ last.op = "check"
    /\ last.note = "raise"
    /\ Emitted(last, last.symbol, "above")

\* C5.  _handle_remove_coin (reset_all_alerts_for_coin) leaves no entry of
\* the removed asset in triggered_alerts, and a key that was triggered when
\* its asset was removed fires again at the first sample beyond its bound
\* once the asset is watched again with that bound, active.
C5_RemoveClears ==
    [][/\ \A i \in Watched :
             HandleRemoveCoin(i)
             => \A key \in triggered_alerts' :
                   ~StartsWith(key, AlertKeyBase(watched_coins[i].symbol,
                                                 watched_coins[i].id) \o <<"_">>)
       /\ \A i \in Watched, p \in Prices, k \in Kinds :
             LET conf == watched_coins[i]
             IN  (/\ Check(i, Some(p))
                  /\ conf.alert_active
                  /\ Limit(conf, k) # None
                  /\ AlertId(conf.symbol, conf.id, k, Val(Limit(conf, k)))
                        \in removed_keys
                  /\ Beyond(k, p, Val(Limit(conf, k))))
                 => Emitted(last', conf.symbol, k)
      ]_vars

\* A key that was triggered at removal has just fired again.
C5_Witness ==
    /\ last.op = "check"
    /\ last.note = "refire"
    /\ last.ev # <<>>


(***************************************************************************)
(* Claims about the polling loop and its control, checked under Spec and   *)
(* FairSpec.                                                               *)
(***************************************************************************)
\* C1: in every reachable state at most one _fetch_data_loop is alive,
\* whatever sequence of start, stop and refresh-interval changes led to it;
\* a start after a stop that timed out on a blocked fetch creates no second
\* loop.
C1_AtMostOneLoop == Cardinality(AliveThreads) <= 1

\* C6: start_data_fetching_loop called while the registered loop is alive
\* creates no thread and leaves the cancellation event and the registration
\* as they are; stop_data_fetching_loop called with no loop registered (or
\* a registered loop that has ended) sets no event, enters no join and
\* returns at once.
C6_Idempotent ==
    [][/\ (Start /\ cmc_api_client /\ StopSignals) =>
              /\ thr' = thr
              /\ stop_fetching_event' = stop_fetching_event
              /\ data_fetch_thread' = data_fetch_thread
              /\ ui' = ui
       /\ (Stop /\ ~StopSignals) =>
              /\ thr' = thr
              /\ stop_fetching_event' = stop_fetching_event
              /\ data_fetch_thread' = 0
              /\ ui'.pc = "idle"]_vars

\* A second start has just returned without creating a thread, with
\* exactly the registered loop alive.
C6_Witness ==
    /\ last.op = "start"
    /\ last.note = "already_running"
    /\ AliveThreads = {data_fetch_thread}

\* C7: a stop_data_fetching_loop that has signalled cancellation and waits
\* in join always returns to its caller, also when the loop never leaves
\* the price fetch; while it waits the event is set, and on return it
\* reports the abandoned loop exactly when the loop is still alive.
C7_StopReturns ==
    /\ (ui.pc = "join") ~> (ui.pc # "join")
    /\ [](ui.pc = "join" => stop_fetching_event)
    /\ [][JoinReturn =>
             (last'.note = "not_graceful") = Alive(data_fetch_thread)]_vars

\* stop has returned and reported a loop that is still blocked in the fetch.
C7_Witness ==
    /\ last.op = "stop_return"
    /\ last.note = "not_graceful"
    /\ \E t \in Threads : thr[t].pc = "get_quotes"

C9_TransientContinues ==
    [][\A t \in Threads :
          /\ (/\ thr[t].pc = "got"
              /\ thr[t].resp \in {"error", "unknown"}
              /\ ~stop_fetching_event
              /\ thr'[t] # thr[t]
              /\ ui'.pc # "quit") =>
                 /\ thr'[t] = StartSleep(t, 3, "failed")
                 /\ triggered_alerts' = triggered_alerts
                 /\ last'.ev = <<>>
                 /\ last'.out = {"status"}
          /\ (/\ thr[t].resp = "failed"
              /\ ~stop_fetching_event
              /\ cmc_api_client
              /\ thr'[t] # thr[t]
              /\ ui'.pc # "quit") =>
                 /\ thr'[t].pc # "dead"
                 /\ (thr[t].pc = "sleep_chk" /\ thr[t].n = 0) =>
                        thr'[t].pc = "sleep_zz"
                 /\ thr[t].pc = "while" =>
                        thr'[t].pc \in {"client", "sleep_chk"}
                 /\ thr[t].pc = "client" =>
                        thr'[t].pc \in {"get_quotes", "sleep_chk"}
                 /\ triggered_alerts' = triggered_alerts]_vars

\* A loop whose last fetch failed is in its next get_quotes.
C9_Witness ==
    \E t \in Threads : thr[t].pc = "get_quotes" /\ thr[t].resp = "failed"

\* C10: the loop that sees an authentication failure exits at once and
\* hands _prompt_for_api_key_again to the foreground, and from then until a
\* new key has been entered no loop issues a fetch.
C10_AuthStopsFetching ==
    [][/\ \A t \in Threads :
             (/\ thr[t].pc = "got"
              /\ thr[t].resp = "auth"
              /\ ~stop_fetching_event
              /\ thr'[t] # thr[t]) =>
                 /\ thr'[t].pc = "dead"
                 /\ prompt_queued'
                 /\ triggered_alerts' = triggered_alerts
       /\ key_rejected =>
             \A t \in Threads :
                 thr'[t].pc = "get_quotes" => thr[t].pc = "get_quotes"]_vars


(***************************************************************************)
(* Claims about one tick and about the sound path.                         *)
(***************************************************************************)
\* C13: within a tick, the price update of an asset is handed to the
\* foreground only after the alert evaluation of that asset: there is no
\* state in which a loop has just dispatched the update and still has the
\* evaluation of that asset before it.
C13_EvalBeforeUpdate ==
    \A t \in Threads :
        thr[t].pc = "coin_eval" => ~(last.by = t /\ "update" \in last.out)

\* C17: a loop that enters the sleep of an empty watch list, or the sleep
\* of a list without a resolvable id, has in that cycle called no price
\* fetch and enters the sleep with a heartbeat status handed to the
\* foreground.
C17_HeartbeatThenSleep ==
    [][\A t \in Threads :
          (/\ thr[t].pc \in {"while", "client"}
           /\ thr'[t].pc = "sleep_chk") =>
              /\ thr'[t].site \in {1, 2}
              /\ last'.by = t
              /\ "status" \in last'.out]_vars

\* C18: whatever sound_enabled, the mixer and the playback are, a call of
\* check_and_trigger_alerts leaves the same triggered_alerts, makes the
\* same alert events in the same order, and hands the same highlights to
\* the foreground; what the sound path reports is no alert event.
C18_SoundIndependent ==
    [][\A i \in Watched, p \in OptPrices :
          Check(i, p) =>
              \A s \in BOOLEAN, m \in BOOLEAN, o \in PlaybackOutcomes :
                  LET conf == watched_coins[i]
                      r == check_and_trigger_alerts(triggered_alerts,
                               conf.symbol, conf.id, p, conf, s, m)
                      calls == VisualCalls(r.ev, s, m, o)
                  IN  /\ r.trig = triggered_alerts'
                      /\ r.ev = last'.ev
                      /\ AlertEvents(calls) = last'.ev
                      /\ handle_visual_alert(calls) = handle_visual_alert(last'.ev)
      ]_vars

\* An alert has just fired without a sound being started.
C18_Witness ==
    /\ last.op = "check"
    /\ last.ev # <<>>
    /\ last.snd = 0
    /\ triggered_alerts # {}

\* C20: a call without a price emits no event, starts no sound and leaves
\* triggered_alerts as it is, for an active asset too: triggered keys stay
\* triggered, armed bounds stay armed.
C20_NoPriceNoChange ==
    [][\A i \in Watched :
          Check(i, None) =>
              /\ triggered_alerts' = triggered_alerts
              /\ last'.ev = <<>>
              /\ last'.snd = 0]_vars

\* An active asset with a triggered upper bound has just been fed no
\* price.
C20_Witness ==
    /\ last.op = "check"
    /\ last.price = None
    /\ \E i \in Watched :
          LET conf == watched_coins[i]
          IN  /\ conf.symbol = last.symbol
              /\ conf.alert_active
              /\ conf.alert_above # None
              /\ AlertId(conf.symbol, conf.id, "above", Val(conf.alert_above))
                    \in triggered_alerts


(***************************************************************************)
(* Claims about the tick followed statement by statement (SpecTick).       *)
(***************************************************************************)
\* The polling thread t is between the read of the map (line 98 or 115)
\* and its store (line 105 or 122).
BetweenReadAndWrite(t) == thr[t].pc \in {"mark_above", "mark_below"}

\* The keys of triggered_alerts that belong to the entry conf.
KeysOf(conf) ==
    triggered_alerts
        \ reset_all_alerts_for_coin(triggered_alerts, conf.symbol, conf.id)

\* C11: the mutations of triggered_alerts exclude one another: no foreground
\* reset takes effect between the read and the write of a running
\* check_and_trigger_alerts, and no update is lost: while an asset's alerts
\* are switched off, the reset of that switch-off still holds, i.e. no key
\* of the asset is in the map.
C11_ResetNotLost ==
    /\ \A i \in 1..Len(watched_coins) :
          toggled[watched_coins[i].symbol] = "off" =>
              KeysOf(watched_coins[i]) = {}
    /\ \A t \in Threads :
          BetweenReadAndWrite(t) =>
              toggled[thr[t].watched[thr[t].i].symbol] = "none"

\* C12: after a switch-off and a later switch-on with unchanged bounds, the
\* first check_and_trigger_alerts call that follows and finds the price
\* beyond a set bound emits the event of that bound, whatever the polling
\* thread was doing when the switch was clicked.
C12_RefiresAfterToggle ==
    [][\A t \in Threads :
          LET rec == thr[t]
              conf == watched_coins[rec.i]
              limit == Limit(conf, rec.pc)
          IN  (/\ rec.pc \in Kinds
               /\ thr'[t] # rec
               /\ toggled[conf.symbol] = "eval"
               /\ IF limit = None THEN FALSE
                  ELSE Beyond(rec.pc, Val(rec.price), Val(limit))) =>
                  last'.ev = <<Event(conf.symbol, rec.pc)>>]_vars

\* A live polling thread takes a step.
ThreadMoved == \E t \in Threads : thr[t].pc # "dead" /\ thr'[t] # thr[t]

\* The callback that carries a UI effect of the polling thread.
EffectFn(o) ==
    CASE o = "status" -> "status"
      [] o \in {"update", "unavailable"} -> "update_data"
      [] o = "alert" -> "show_visual_alert"
      [] o = "prompt" -> "prompt"

\* C14: a step of the polling thread changes no widget; each UI effect it
\* produces (label update, status text, row highlight, key prompt) is
\* appended to the self.after queue; widgets change and the key dialog opens
\* only in steps of the foreground, the dialog only by running the queued
\* prompt.
C14_ThreadHandsOff ==
    [][/\ ThreadMoved =>
             /\ widgets' = widgets
             /\ Len(after_queue') >= Len(after_queue)
             /\ SubSeq(after_queue', 1, Len(after_queue)) = after_queue
             /\ {after_queue'[k].fn :
                    k \in (Len(after_queue) + 1)..Len(after_queue')}
                   = {EffectFn(o) : o \in last'.out}
       /\ widgets' # widgets => ui.pc = "idle" /\ ~ThreadMoved
       /\ (ui'.pc = "dialog" /\ ui.pc # "dialog") =>
             /\ ~ThreadMoved
             /\ after_queue # <<>>
             /\ Head(after_queue) = PromptCb
             /\ after_queue' = Tail(after_queue)]_vars

\* The foreground has run a price update, a highlight and a status text
\* queued by the polling thread, and the queued key prompt.
C14_Witness ==
    /\ widgets.price_label[BTC.id] = PriceText(Some(MaxPrice))
    /\ widgets.fg_color[BTC.id] = AlertColor("above")
    /\ widgets.status = <<"api_error">>
    /\ ui.pc = "dialog"

C16_BadEntrySkipped ==
    [][\A t \in Threads :
          LET rec == thr[t]
              new == thr'[t]
          IN  /\ (rec.pc = "coin" /\ new # rec) =>
                    LET conf == watched_coins[rec.i]
                        cb == after_queue'[Len(after_queue')]
                    IN  /\ after_queue' = after_queue \o <<cb>>
                        /\ cb.fn = "update_data"
                        /\ cb.id = conf.id
                        /\ triggered_alerts' = triggered_alerts
                        /\ last'.ev = <<>>
                        /\ IF cb.price = None
                           THEN /\ new.pc \in {"coin", "after_coins"}
                                /\ new.pc = "coin" <=> rec.i < Len(rec.watched)
                           ELSE /\ new.pc = "eval"
                                /\ new.i = rec.i
                                /\ new.price = cb.price
              /\ (new.pc = "coin" /\ new # rec) =>
                    /\ new.i = rec.i + 1
                    /\ rec.pc # "while" =>
                          /\ Len(new.watched) = Len(rec.watched)
                          /\ \A k \in 1..Len(rec.watched) :
                                new.watched[k].id = rec.watched[k].id
              /\ (new.pc = "after_coins" /\ new # rec) =>
                    rec.i = Len(rec.watched)]_vars

\* The first entry was unavailable and the second one, well-formed, has
\* been updated and is about to be evaluated.
C16_Witness ==
    /\ after_queue = <<UpdateCb(BTC.id, None), UpdateCb(ETH.id, Some(MaxPrice))>>
    /\ thr[1].pc = "eval"
    /\ thr[1].i = 2
    /\ thr[1].price = Some(MaxPrice)

\* C19: whenever the polling loop sleeps, the interval it sleeps on is at
\* least 10 seconds, whether it came from the interval field, from the
\* persisted configuration or from the default.
C19_IntervalAtLeastMin ==
    \A t \in Threads :
        thr[t].pc = "sleep" => refresh_interval_seconds >= MinInterval


(***************************************************************************)
(* Claims about the cancellation event (Spec).                             *)
(***************************************************************************)
\* C26: while the cancellation event is set, it stays set as long as a loop
\* that was alive when it was set is alive: no step clears the event and
\* leaves such a loop running.  (A live loop is never created while the
\* event is set, so every loop alive then has been the target of a stop.)
C26_EventStaysSet ==
    [][\A t \in Threads :
          (stop_fetching_event /\ Alive(t) /\ thr'[t].pc # "dead") =>
              stop_fetching_event']_vars

\* stop_data_fetching_loop has signalled and returned, and
\* start_data_fetching_loop has not run since.
Stopped ==
    /\ ui.pc \in {"idle", "dialog"}
    /\ data_fetch_thread = 0
    /\ stop_fetching_event

\* C27: from the return of stop_data_fetching_loop to the next
\* start_data_fetching_loop no polling thread begins a fetch, evaluates an
\* asset, changes triggered_alerts or hands anything to the foreground; a
\* fetch still in flight ends without an evaluation.
C27_QuietAfterStop ==
    [][\A t \in Threads :
          (Stopped /\ Alive(t) /\ thr'[t] # thr[t]) =>
              /\ thr'[t].pc = "get_quotes" => thr[t].pc = "get_quotes"
              /\ thr[t].pc # "coin_eval"
              /\ triggered_alerts' = triggered_alerts
              /\ last'.by # t]_vars


(***************************************************************************)
(* Claims about the CoinGecko coin-list cache (SpecCache).                 *)
(***************************************************************************)
\* C30: a call of get_coin_id_by_symbol fetches the coin list exactly when
\* the cache is empty or older than COIN_LIST_CACHE_DURATION, and otherwise
\* leaves cache and time stamp alone; a call whose fetch fails returns None
\* and leaves the cache empty, so that the next call fetches again.
C30_CacheFetch ==
    [][last'.op = "get_coin_id" =>
          LET empty == IF coin_list_cache = None THEN TRUE
                       ELSE Len(Val(coin_list_cache)) = 0
              old == clock - coin_list_last_updated > COIN_LIST_CACHE_DURATION
              fetched == "fetch" \in last'.out
          IN  /\ fetched <=> (empty \/ old)
              /\ ~fetched =>
                    /\ coin_list_cache' = coin_list_cache
                    /\ coin_list_last_updated' = coin_list_last_updated
              /\ "failed" \in last'.out =>
                    /\ fetched
                    /\ coin_list_cache' = None
                    /\ coin_list_last_updated' = coin_list_last_updated
                    /\ last'.note = "None"
              /\ (fetched /\ "failed" \notin last'.out) =>
                    /\ coin_list_cache' # None
                    /\ coin_list_last_updated' = clock
              /\ "failed" \in last.out => fetched]_vars

\* A fetch has failed on a cache that held a list and was too old.
C30_Witness ==
    /\ last.op = "get_coin_id"
    /\ "failed" \in last.out
    /\ coin_list_cache = None
    /\ coin_list_last_updated >= StartTime
    /\ clock - coin_list_last_updated > COIN_LIST_CACHE_DURATION


(***************************************************************************)
(* Claims about the trigger state under any caller (SpecEngine).           *)
(***************************************************************************)
\* The bound kind a set_bound or reset_alert_state step was about.
KindOf(l) == IF "above" \in l.out THEN "above" ELSE "below"

\* The caller's dict for the symbol.
ConfOf(symbol) ==
    watched_coins[CHOOSE i \in 1..Len(watched_coins) :
                      watched_coins[i].symbol = symbol]

\* The step evaluates the asset of the preceding set_bound step at a price
\* beyond the bound that step stored.
SampleBeyondNewBound ==
    /\ last.op = "set_bound" /\ last.price # None
    /\ last'.op = "check" /\ last'.symbol = last.symbol
    /\ last'.price # None
    /\ ConfOf(last.symbol).alert_active
    /\ Beyond(KindOf(last), Val(last'.price), Val(last.price))

CleanedEvents ==
    check_and_trigger_alerts(cleaned_alerts, last'.symbol,
                             ConfOf(last'.symbol).id, last'.price,
                             ConfOf(last'.symbol), sound_enabled,
                             mixer_initialized).ev

EvaluatedCall ==
    /\ last'.op = "check"
    /\ last'.price # None
    /\ ConfOf(last'.symbol).alert_active

\* The key of the current bound of one kind, for a bound that is set.
CurrentKey(conf, kind) ==
    AlertId(conf.symbol, conf.id, kind, Val(Limit(conf, kind)))

\* The bound of this kind is set, the price is beyond it and its key is not
\* in the map: what the event of this kind depends on.
ArmedAndBeyond(conf, kind, price, trig) ==
    IF Limit(conf, kind) = None THEN FALSE
    ELSE /\ Beyond(kind, price, Val(Limit(conf, kind)))
         /\ CurrentKey(conf, kind) \notin trig

\* C23 (independent bounds): in one call that evaluates, the event of a
\* kind is emitted exactly when that kind's bound is set, the price is
\* beyond it and that kind's key was armed, whatever the other bound is and
\* does; the above event comes first.  So a call emits two events exactly
\* when alert_above < price < alert_below with both keys armed, and at most
\* one whenever alert_below <= alert_above or a bound is unset.  Afterwards
\* each set bound's key is in the map exactly when the price is beyond that
\* bound.
C23_IndependentBounds ==
    [][EvaluatedCall =>
          LET conf == ConfOf(last'.symbol)
              p == Val(last'.price)
              fa == ArmedAndBeyond(conf, "above", p, triggered_alerts)
              fb == ArmedAndBeyond(conf, "below", p, triggered_alerts)
              both == conf.alert_above # None /\ conf.alert_below # None
          IN  /\ last'.ev =
                    (IF fa THEN <<Event(conf.symbol, "above")>> ELSE <<>>)
                    \o (IF fb THEN <<Event(conf.symbol, "below")>> ELSE <<>>)
              /\ Len(last'.ev) <= 2
              /\ Len(last'.ev) = 2 <=>
                    IF both
                    THEN /\ Val(conf.alert_above) < p
                         /\ p < Val(conf.alert_below)
                         /\ CurrentKey(conf, "above") \notin triggered_alerts
                         /\ CurrentKey(conf, "below") \notin triggered_alerts
                    ELSE FALSE
              /\ (IF both THEN Val(conf.alert_below) <= Val(conf.alert_above)
                  ELSE TRUE) => Len(last'.ev) <= 1
              /\ \A k \in Kinds :
                    Limit(conf, k) # None =>
                       (CurrentKey(conf, k) \in triggered_alerts'
                           <=> Beyond(k, p, Val(Limit(conf, k))))]_vars

\* One call has emitted both events of BTC: 1 < price < MaxPrice.
C23_Witness ==
    /\ last.op = "check" /\ last.symbol = BTC.symbol
    /\ last.ev = <<Event(BTC.symbol, "above"), Event(BTC.symbol, "below")>>
    /\ watched_coins[1].alert_above = Some(1)
    /\ watched_coins[1].alert_below = Some(MaxPrice)

\* C24 (entry and event): after a call that evaluates, the entry of each set
\* bound's current key is present exactly when the price is beyond that
\* bound; and in every call an entry is created only together with the
\* event of its bound, and an event is emitted only together with the
\* creation of the entry of its bound's current key.
C24_EntryIffBeyond ==
    [][last'.op = "check" =>
          LET conf == ConfOf(last'.symbol)
              created == triggered_alerts' \ triggered_alerts
          IN  /\ EvaluatedCall =>
                    \A k \in Kinds :
                       Limit(conf, k) # None =>
                          (CurrentKey(conf, k) \in triggered_alerts'
                              <=> Beyond(k, Val(last'.price),
                                         Val(Limit(conf, k))))
              /\ \A key \in created :
                    \E k \in Kinds :
                       /\ Limit(conf, k) # None
                       /\ Emitted(last', conf.symbol, k)
                       /\ IF Limit(conf, k) = None THEN FALSE
                          ELSE key = CurrentKey(conf, k)
              /\ \A k \in Kinds :
                    Emitted(last', conf.symbol, k) =>
                       IF Limit(conf, k) = None THEN FALSE
                       ELSE CurrentKey(conf, k) \in created
              /\ Len(last'.ev) = Cardinality(created)]_vars

\* A call at price 0 has created the entry of the lower bound 1 of BTC with
\* its event, and left the upper bound MaxPrice without entry and event.
C24_Witness ==
    /\ last.op = "check" /\ last.symbol = BTC.symbol
    /\ last.price = Some(0)
    /\ last.ev = <<Event(BTC.symbol, "below")>>
    /\ watched_coins[1].alert_above = Some(MaxPrice)
    /\ watched_coins[1].alert_below = Some(1)
    /\ AlertId(BTC.symbol, BTC.id, "below", 1) \in triggered_alerts
    /\ AlertId(BTC.symbol, BTC.id, "above", MaxPrice) \notin triggered_alerts

\* The keys check_and_trigger_alerts can write for an asset: one per bound
\* kind and bound value.
EntriesOf(u) ==
    {AlertId(u.symbol, u.id, k, v) : k \in Kinds, v \in EngineThresholds}

\* The asset a step of SpecEngine was called for.
CalledFor(l) == CHOOSE u \in {BTC, BTC_1} : u.symbol = l.symbol

\* C25 (frame): a call of check_and_trigger_alerts, reset_alert_state or
\* reset_all_alerts_for_coin for one asset leaves the entries of every asset
\* with another id as they are, and reset_alert_state for one kind and
\* value leaves every other key of its own asset as it is.
C25_OtherAssetsUntouched ==
    [][last'.op \in {"check", "reset_alert_state", "reset_all"} =>
          /\ \A u \in {BTC, BTC_1} :
                u.id # CalledFor(last').id =>
                   EntriesOf(u) \cap triggered_alerts'
                      = EntriesOf(u) \cap triggered_alerts
          /\ last'.op = "reset_alert_state" =>
                triggered_alerts \ triggered_alerts'
                   \subseteq {AlertId(last'.symbol, CalledFor(last').id,
                                      KindOf(last'), Val(last'.price))}]_vars


(***************************************************************************)
(* Claim about the removal of an asset (SpecTickRemove).                   *)
(***************************************************************************)
\* The asset is in config["watched_coins"].
IsWatched(u) == \E m \in 1..Len(watched_coins) : watched_coins[m].id = u.id

\* C28: once _handle_remove_coin has completed for an asset, no alert event
\* is emitted for it and triggered_alerts holds no key of it, whatever the
\* polling thread was doing at the removal.
C28_SilentAfterRemoval ==
    \A u \in Universe :
       ~IsWatched(u) =>
          /\ ~(last.op = "eval" /\ last.symbol = u.symbol /\ last.ev # <<>>)
          /\ \A key \in triggered_alerts :
                ~StartsWith(key, AlertKeyBase(u.symbol, u.id) \o <<"_">>)


(***************************************************************************)
(* Claim about the default configuration (SpecConfig).                     *)
(***************************************************************************)
\* C29: the configuration load_config returns is independent of
\* DEFAULT_CONFIG in every path that uses defaults: no later change of the
\* returned configuration changes DEFAULT_CONFIG, and every load_config that
\* falls back to the defaults for the watch list (no file, undecodable file,
\* missing key) returns an empty watch list.
C29_DefaultUntouched ==
    [][/\ DEFAULT_CONFIG' = DEFAULT_CONFIG
       /\ (last'.op = "load_config"
           /\ last'.note \in {"created", "default", "filled"}) =>
              watched_coins' = <<>>]_vars

=============================================================================
